---- MODULE Spec2Model ----
(***************************************************************************)
(* Query-understanding pipeline of the context knowledge graph:            *)
(*   - schemaMetadata.js   getSchema / schemaCache                         *)
(*   - queryEngine.js      answerUserQuery (generate, retry, verbalize),   *)
(*                         optimizeCypher                                  *)
(*   - queryUnderstanding.js  answerUserQuery (schema-driven generation,   *)
(*                         narrateResults) and the intent pipeline         *)
(* Every await of the JavaScript code is a suspension point: one action    *)
(* is the code that runs from one resumption to the next await.            *)
(***************************************************************************)
EXTENDS Integers, Sequences, FiniteSets, TLC

VARIABLES
  \* ---- schemaMetadata.js ----
  schemaCache,      \* the module variable: 0 is null, p > 0 the descriptor built by pass p
  discoveryPasses,  \* number of discovery passes (Promise.all of introspection queries) issued
  failedPasses,     \* number of discovery passes that rejected
  stored,           \* every descriptor ever assigned to schemaCache
  returned,         \* every descriptor ever returned by a getSchema() call
  gsPc,             \* per caller: "idle", "awaiting", "returned", "threw"
  gsPass,           \* per caller: the discovery pass its current call awaits (0: none)
  gsRet,            \* per caller: the descriptor its latest call returned (0: none)
  gsCalls,          \* per caller: number of getSchema() calls it has started
  \* ---- optimizeCypher and the query handed to the store ----
  genText,          \* the text the generator produced
  sendVia,          \* "engine" (queryEngine.js) or "schema" (queryUnderstanding.js)
  sentText,         \* the text handed to runCypherReadOnly
  sendPc,           \* "generated", "sent"
  \* ---- answerUserQuery ----
  variant,          \* the pipeline the deployment imports: "engine" (queryEngine.js),
                    \* "schema" or "intent" (the two of queryUnderstanding.js)
  req,              \* per request: the locals of its answerUserQuery call
  \* ---- one call of a helper function ----
  call,             \* the function, its argument, its position and what it produced
  \* ---- server.js ----
  isServerReady,    \* the module variable
  startup,          \* the file the server runs (part_000 or part_001) and where the
                    \* app.listen callback stands
  http              \* per POST /api/query request: its body, position and response

schemaVars == <<schemaCache, discoveryPasses, failedPasses, stored, returned,
                gsPc, gsPass, gsRet, gsCalls>>
sendVars == <<genText, sendVia, sentText, sendPc>>
pipeVars == <<variant, req>>
fnVars == <<call>>
srvVars == <<isServerReady, startup, http>>
vars == <<schemaVars, sendVars, pipeVars, fnVars, srvVars>>

(***************************************************************************)
(* Bounds of the model.                                                    *)
(***************************************************************************)
NumCallers == 3
MaxCalls == 2
MaxTokens == 4
MaxGenTokens == 1
MaxRows == 52
MaxForeignNumbers == 3
MaxKeywords == 2
MaxHistory == 12
MaxReports == 2

Callers == 1..NumCallers

(***************************************************************************)
(* schemaMetadata.js: getSchema()                                          *)
(***************************************************************************)
SchemaInit ==
  /\ schemaCache = 0
  /\ discoveryPasses = 0
  /\ failedPasses = 0
  /\ stored = {}
  /\ returned = {}
  /\ gsPc = [c \in Callers |-> "idle"]
  /\ gsPass = [c \in Callers |-> 0]
  /\ gsRet = [c \in Callers |-> 0]
  /\ gsCalls = [c \in Callers |-> 0]

\* getSchema() up to its first await: line 19 returns the cached descriptor;
\* otherwise the call issues its own Promise.all of introspection queries.
GetSchemaCall(c) ==
  /\ gsPc[c] \in {"idle", "returned", "threw"}
  /\ gsCalls[c] < MaxCalls
  /\ gsCalls' = [gsCalls EXCEPT ![c] = @ + 1]
  /\ IF schemaCache # 0
       THEN /\ gsPc' = [gsPc EXCEPT ![c] = "returned"]
            /\ gsRet' = [gsRet EXCEPT ![c] = schemaCache]
            /\ returned' = returned \cup {schemaCache}
            /\ UNCHANGED <<discoveryPasses, gsPass>>
       ELSE /\ discoveryPasses' = discoveryPasses + 1
            /\ gsPass' = [gsPass EXCEPT ![c] = discoveryPasses + 1]
            /\ gsPc' = [gsPc EXCEPT ![c] = "awaiting"]
            /\ UNCHANGED <<gsRet, returned>>
  /\ UNCHANGED <<schemaCache, failedPasses, stored>>

\* The Promise.all resolved: the call builds its own descriptor (line 78),
\* assigns it to schemaCache (line 136) and returns it (line 137).
DiscoveryResolve(c) ==
  /\ gsPc[c] = "awaiting"
  /\ schemaCache' = gsPass[c]
  /\ stored' = stored \cup {gsPass[c]}
  /\ gsRet' = [gsRet EXCEPT ![c] = gsPass[c]]
  /\ returned' = returned \cup {gsPass[c]}
  /\ gsPc' = [gsPc EXCEPT ![c] = "returned"]
  /\ gsPass' = [gsPass EXCEPT ![c] = 0]
  /\ UNCHANGED <<discoveryPasses, failedPasses, gsCalls>>

\* One of the introspection queries rejected: the catch block rethrows
\* (lines 139-142) and schemaCache is not assigned.
DiscoveryReject(c) ==
  /\ gsPc[c] = "awaiting"
  /\ failedPasses' = failedPasses + 1
  /\ gsPc' = [gsPc EXCEPT ![c] = "threw"]
  /\ gsPass' = [gsPass EXCEPT ![c] = 0]
  /\ UNCHANGED <<schemaCache, discoveryPasses, stored, returned, gsRet, gsCalls>>

(***************************************************************************)
(* queryEngine.js: optimizeCypher(cypher)                                  *)
(*                                                                         *)
(* A query text is a sequence of lexemes, juxtaposed as written:           *)
(*   "TXT"    clause text without the letters "limit", a fence or ";"      *)
(*   "LIMIT"  the keyword LIMIT (any case) with the blank that follows it  *)
(*   "n5", "n100", "n500"  a numeral with the blank that delimits it       *)
(*   "IDLIM"  text that contains the letters "limit" followed by something *)
(*            other than white space and digits (rate_limit_x, '$limit,')  *)
(*   ";"      a semicolon                                                  *)
(*   "NL"     one newline                                                  *)
(*   "FENCEC" the markdown fence ```cypher,  "FENCE" the fence ```         *)
(***************************************************************************)
Lexemes == {"TXT", "LIMIT", "n5", "n500", "IDLIM", ";", "NL", "FENCEC", "FENCE"}

IsNum(t) == t \in {"n5", "n100", "n500"}

NumVal(t) == CASE t = "n5" -> 5 [] t = "n100" -> 100 [] t = "n500" -> 500 [] OTHER -> 0

\* All texts of at most n lexemes.
RECURSIVE Texts(_)
Texts(n) ==
  IF n = 0 THEN {<<>>}
  ELSE LET shorter == Texts(n - 1)
       IN  shorter \cup {Append(t, x) : t \in {u \in shorter : Len(u) = n - 1}, x \in Lexemes}

\* String.prototype.trim on the white space the lexemes make visible.
RECURSIVE TrimStart(_)
TrimStart(s) ==
  IF s # <<>> /\ Head(s) = "NL" THEN TrimStart(Tail(s)) ELSE s

RECURSIVE TrimEnd(_)
TrimEnd(s) ==
  IF s # <<>> /\ s[Len(s)] = "NL" THEN TrimEnd(SubSeq(s, 1, Len(s) - 1)) ELSE s

Trim(s) == TrimEnd(TrimStart(s))

\* replace(/<fence>\n?/g, ''): every fence goes, with the one newline after it.
RECURSIVE RemoveFence(_, _)
RemoveFence(s, fence) ==
  IF s = <<>> THEN <<>>
  ELSE IF Head(s) = fence
         THEN IF Len(s) >= 2 /\ s[2] = "NL"
                THEN RemoveFence(SubSeq(s, 3, Len(s)), fence)
                ELSE RemoveFence(Tail(s), fence)
         ELSE <<Head(s)>> \o RemoveFence(Tail(s), fence)

\* optimized.toUpperCase().includes("LIMIT")
IncludesLimit(s) == \E i \in 1..Len(s) : s[i] \in {"LIMIT", "IDLIM"}

\* The position of the numeral a match of /LIMIT\s+(\d+)/i starting at
\* lexeme i ends with, 0 when there is no match at i.
RECURSIVE SkipWhite(_, _)
SkipWhite(s, k) ==
  IF k > Len(s) THEN 0
  ELSE IF s[k] = "NL" THEN SkipWhite(s, k + 1)
  ELSE k

LimitMatchEnd(s, i) ==
  IF s[i] # "LIMIT" THEN 0
  ELSE LET j == SkipWhite(s, i + 1)
       IN  IF j # 0 /\ IsNum(s[j]) THEN j ELSE 0

\* optimized.match(/LIMIT\s+(\d+)/i): the first match, 0 when there is none.
LimitMatch(s) ==
  LET hits == {i \in 1..Len(s) : LimitMatchEnd(s, i) # 0}
  IN  IF hits = {} THEN 0 ELSE CHOOSE i \in hits : \A h \in hits : i <= h

\* Lines 105-111: no "LIMIT" anywhere in the text.
AppendLimit(s) ==
  IF s # <<>> /\ s[Len(s)] = ";"
    THEN SubSeq(s, 1, Len(s) - 1) \o <<"LIMIT", "n100", ";">>
    ELSE s \o <<"LIMIT", "n100">>

\* Lines 113-119: the first LIMIT <digits> is rewritten when above 100.
RewriteLimit(s) ==
  LET i == LimitMatch(s)
  IN  IF i = 0 THEN s
      ELSE LET j == LimitMatchEnd(s, i)
           IN  IF NumVal(s[j]) > 100
                 THEN SubSeq(s, 1, i - 1) \o <<"LIMIT", "n100">> \o SubSeq(s, j + 1, Len(s))
                 ELSE s

optimizeCypher(cypher) ==
  LET trimmed == Trim(cypher)
      unfenced == RemoveFence(RemoveFence(trimmed, "FENCEC"), "FENCE")
      limited == IF ~IncludesLimit(unfenced) THEN AppendLimit(unfenced) ELSE unfenced
  IN  RewriteLimit(limited)

(***************************************************************************)
(* The query text that reaches runCypherReadOnly.                          *)
(***************************************************************************)
SendInit ==
  /\ genText \in Texts(MaxTokens)
  /\ sendVia \in {"engine", "schema"}
  /\ sentText = <<>>
  /\ sendPc = "generated"

\* queryEngine.js lines 23-24 and 39.
EngineSend ==
  /\ sendPc = "generated"
  /\ sendVia = "engine"
  /\ sentText' = optimizeCypher(genText)
  /\ sendPc' = "sent"
  /\ UNCHANGED <<genText, sendVia>>

\* queryUnderstanding.js lines 244 and 254: the generated text goes to the
\* store as it is.
SchemaSend ==
  /\ sendPc = "generated"
  /\ sendVia = "schema"
  /\ sentText' = genText
  /\ sendPc' = "sent"
  /\ UNCHANGED <<genText, sendVia>>

(***************************************************************************)
(* answerUserQuery: what the three pipelines share.                        *)
(***************************************************************************)
Requests == {"r1", "r2"}
Variants == {"engine", "schema", "intent"}

\* An error message is the sequence of the pieces it was concatenated from.
GenFailedPrefix == "Failed to generate query: "
ExecFailedPrefix == "Query execution failed after 3 attempts: "
MsgSyntax == "Neo.ClientError.Statement.SyntaxError: Invalid input"
MsgUnavailable == "Connection was closed by server"
MsgBackend == "429 You exceeded your current quota"
MsgMetadata == "Could not load schema metadata"

\* The substrings the catch blocks look for that a piece contains.
Contains(piece, sub) ==
  sub \in (CASE piece = MsgSyntax -> {"SyntaxError"}
             [] piece = GenFailedPrefix -> {"Failed to generate"}
             [] piece = ExecFailedPrefix -> {"execution failed"}
             [] OTHER -> {})

\* error.message.includes(sub)
Includes(msg, sub) == \E i \in 1..Len(msg) : Contains(msg[i], sub)

\* The messages a rejected store call can carry.
StoreErrors == {<<MsgSyntax>>, <<MsgUnavailable>>}

\* A result row is the sequence of its column values, each value known by
\* its typeof ("num", "str") or, for a boolean, by its value.
ResultSets ==
  { <<>>,
    << <<"num">> >>,
    << <<"true">> >>,
    << <<"false">> >>,
    << <<"str">> >>,
    << <<"str", "num">> >>,
    << <<"str", "num">>, <<"str", "num">> >> }

\* RETURN 'not_tracked' AS status
Sentinel == <<"SENTINEL">>

\* What the store returns for a query: the sentinel is a RETURN of one
\* string literal, so it yields exactly one row with one string column.
StoreRows(q) == IF q = Sentinel THEN {<< <<"str">> >>} ELSE ResultSets

Generated == "<text produced by the generation backend>"

NoResult ==
  [kind |-> "none", keys |-> {}, answer |-> "", data |-> <<>>, cypher |-> <<>>,
   error |-> <<>>, details |-> <<>>, confidence |-> -1, intent |-> ""]

Event(e, m, q) == [ev |-> e, ms |-> m, q |-> q]

IdleRequest(question) ==
  [pc |-> "idle", question |-> question, genAttempt |-> 0, execAttempt |-> 0,
   meta |-> "pending", pass |-> 0, cypher |-> <<>>, expects |-> "undefined",
   intent |-> "", data |-> <<>>, resp |-> <<>>, log |-> <<>>, narr |-> "none",
   result |-> NoResult]

NoQuestion == [kw |-> {}, product |-> "", issue |-> ""]

(***************************************************************************)
(* queryEngine.js: answerUserQuery(userQuestion)                           *)
(***************************************************************************)
\* The catch block, lines 61-92.
EngineCatch(msg) ==
  [NoResult EXCEPT
     !.kind = "error",
     !.keys = {"error", "details"},
     !.details = msg,
     !.error =
       IF Includes(msg, "SyntaxError") \/ Includes(msg, "Invalid syntax")
            \/ Includes(msg, "Unknown function")
         THEN <<"I couldn't generate a valid query for your question. Please try rephrasing it.">>
       ELSE IF Includes(msg, "execution failed")
         THEN <<"The database query failed to execute. Please try again or contact support.">>
       ELSE IF Includes(msg, "Failed to generate")
         THEN <<"I had trouble understanding your question. Could you rephrase it?">>
       ELSE <<"An unexpected error occurred while processing your question.">>]

\* Lines 15-23: getSchemaMetadata() is started and the first generation
\* attempt awaits it.
EngineStart(r) ==
  /\ variant = "engine"
  /\ req[r].pc = "idle"
  /\ req' = [req EXCEPT ![r].pc = "gen", ![r].genAttempt = 1]

\* EngineGenOk with `cypher` declared at module level: the assignment is
\* seen by every request in flight.
EngineGenOk_SharedCypher(r, text) ==
  /\ variant = "engine"
  /\ req[r].pc = "gen"
  /\ req[r].meta # "rejected"
  /\ LET cy == optimizeCypher(text)
     IN  req' = [o \in Requests |->
                   IF o = r
                     THEN [req[r] EXCEPT
                             !.pc = "exec",
                             !.meta = "ok",
                             !.cypher = cy,
                             !.execAttempt = 1,
                             !.log = @ \o <<Event("generate", 0, <<>>), Event("store", 0, cy)>>]
                     ELSE [req[o] EXCEPT !.cypher = cy]]

\* Lines 22-25 and 37-39: the attempt produced a text; it is optimized and
\* the execution loop makes its first call.
EngineGenOk(r, text) ==
  /\ variant = "engine"
  /\ req[r].pc = "gen"
  /\ req[r].meta # "rejected"
  /\ LET cy == optimizeCypher(text)
     IN  req' = [req EXCEPT
                   ![r].pc = "exec",
                   ![r].meta = "ok",
                   ![r].cypher = cy,
                   ![r].execAttempt = 1,
                   ![r].log = @ \o <<Event("generate", 0, <<>>), Event("store", 0, cy)>>]

\* EngineGenFail without line 31: the second attempt follows the first at
\* once.
EngineGenFail_NoWait(r, why) ==
  /\ variant = "engine"
  /\ req[r].pc = "gen"
  /\ req[r].meta = "rejected" => why = "metadataPromise"
  /\ req[r].meta = "ok" => why # "metadataPromise"
  /\ LET msg == IF why = "backend" THEN <<MsgBackend>> ELSE <<MsgMetadata>>
         called == IF why = "backend" THEN <<Event("generate", 0, <<>>)>> ELSE <<>>
         meta2 == IF why = "metadataPromise" THEN "rejected" ELSE "ok"
     IN  IF req[r].genAttempt = 2
           THEN req' = [req EXCEPT
                          ![r].pc = "done",
                          ![r].meta = meta2,
                          ![r].log = @ \o called,
                          ![r].result = EngineCatch(<<GenFailedPrefix>> \o msg)]
           ELSE req' = [req EXCEPT
                          ![r].pc = "gen",
                          ![r].genAttempt = 2,
                          ![r].meta = meta2,
                          ![r].log = @ \o called]

\* Lines 26-32: the attempt threw. why is "metadataPromise" (line 22, the
\* promise both attempts await), "getSchemaMetadata" (line 136) or
\* "backend" (lines 140-152).
EngineGenFail(r, why) ==
  /\ variant = "engine"
  /\ req[r].pc = "gen"
  /\ req[r].meta = "rejected" => why = "metadataPromise"
  /\ req[r].meta = "ok" => why # "metadataPromise"
  /\ LET msg == IF why = "backend" THEN <<MsgBackend>> ELSE <<MsgMetadata>>
         called == IF why = "backend" THEN <<Event("generate", 0, <<>>)>> ELSE <<>>
         meta2 == IF why = "metadataPromise" THEN "rejected" ELSE "ok"
     IN  IF req[r].genAttempt = 2
           THEN req' = [req EXCEPT
                          ![r].pc = "done",
                          ![r].meta = meta2,
                          ![r].log = @ \o called,
                          ![r].result = EngineCatch(<<GenFailedPrefix>> \o msg)]
           ELSE req' = [req EXCEPT
                          ![r].pc = "genWait",
                          ![r].meta = meta2,
                          ![r].log = @ \o called \o <<Event("genWait", 500, <<>>)>>]

\* Line 31 elapsed: the second generation attempt.
EngineGenRetry(r) ==
  /\ variant = "engine"
  /\ req[r].pc = "genWait"
  /\ req' = [req EXCEPT ![r].pc = "gen", ![r].genAttempt = 2]

\* verbalizeAnswer lines 165-168: the rows embedded in the prompt.
MAX_RESULTS == 50

PromptRows(data) ==
  IF Len(data) > MAX_RESULTS THEN SubSeq(data, 1, MAX_RESULTS) ELSE data

MAX_JSON_LENGTH == 50000

\* The number of rows a result set of the helper specifications can have,
\* and the number of characters one row takes in JSON.stringify(rows, null, 2),
\* the same for every row of a set.
RowCounts == 0..MaxRows
RowSizes == {10, 1500, 3000}

\* A result set of n rows, each row known by its position in the result.
RowsOf(n) == [i \in 1..n |-> i]

\* JSON.stringify(rows, null, 2).length: the two brackets and the rows.
JsonLength(rows, size) == 2 + Len(rows) * size

\* verbalizeAnswer with the second truncation note never assigned.
verbalizePrompt_NoSizeNote(data, size) ==
  LET first == PromptRows(data)
      note1 == IF Len(data) > MAX_RESULTS THEN "Showing MAX_RESULTS of data.length total results" ELSE ""
      half == MAX_RESULTS \div 2
  IN  IF JsonLength(first, size) > MAX_JSON_LENGTH
        THEN [rows |-> IF Len(first) > half THEN SubSeq(first, 1, half) ELSE first,
              note |-> note1]
        ELSE [rows |-> first, note |-> note1]

\* verbalizeAnswer lines 162-176: the rows serialized into the prompt and
\* the note appended to it.
verbalizePrompt(data, size) ==
  LET first == PromptRows(data)
      note1 == IF Len(data) > MAX_RESULTS THEN "Showing MAX_RESULTS of data.length total results" ELSE ""
      half == MAX_RESULTS \div 2
  IN  IF JsonLength(first, size) > MAX_JSON_LENGTH
        THEN [rows |-> IF Len(first) > half THEN SubSeq(first, 1, half) ELSE first,
              note |-> "Results truncated due to size. Showing truncatedData.length results"]
        ELSE [rows |-> first, note |-> note1]

\* A text of the narration backend, known by the number of numeric tokens
\* in it that occur nowhere in the serialized rows of the prompt.
BackendTexts == [kind : {"prose"}, foreign : 0..MaxForeignNumbers]
NoText == [kind |-> "none", foreign |-> 0]

\* verbalizeAnswer(question, data) is called.
VerbalizeInit ==
  \E n \in RowCounts, size \in RowSizes :
    call = [fn |-> "verbalizeAnswer", pc |-> "called", data |-> RowsOf(n), size |-> size,
            prompt |-> [rows |-> <<>>, note |-> ""], ret |-> NoText]

\* Lines 162-191: the prompt is built and the backend call is made.
VerbalizeBuild ==
  /\ call.fn = "verbalizeAnswer"
  /\ call.pc = "called"
  /\ call' = [call EXCEPT !.pc = "awaiting", !.prompt = verbalizePrompt(call.data, call.size)]

\* Line 193: the backend answered; its text, trimmed, is the return value.
VerbalizeReturn ==
  /\ call.fn = "verbalizeAnswer"
  /\ call.pc = "awaiting"
  /\ \E text \in BackendTexts :
       call' = [call EXCEPT !.pc = "returned", !.ret = text]

\* The backend call rejected.
VerbalizeThrow ==
  /\ call.fn = "verbalizeAnswer"
  /\ call.pc = "awaiting"
  /\ call' = [call EXCEPT !.pc = "threw"]

\* EngineExecOk with `data` declared anew inside the loop body: the rows of
\* a retried attempt never reach the outer variable.
EngineExecOk_ScopedData(r, rows) ==
  /\ variant = "engine"
  /\ req[r].pc = "exec"
  /\ LET kept == IF req[r].execAttempt = 1 THEN rows ELSE <<>>
     IN  req' = [req EXCEPT
                   ![r].pc = "narr",
                   ![r].data = kept,
                   ![r].resp = Append(@, [ok |-> TRUE, rows |-> rows, msg |-> <<>>]),
                   ![r].narr = "pending",
                   ![r].log = Append(@, Event("narrate", Len(PromptRows(kept)), <<>>))]

\* Lines 39-40 and 54: the store call resolved; verbalizeAnswer builds its
\* prompt and calls the backend.
EngineExecOk(r, rows) ==
  /\ variant = "engine"
  /\ req[r].pc = "exec"
  /\ req' = [req EXCEPT
               ![r].pc = "narr",
               ![r].data = rows,
               ![r].resp = Append(@, [ok |-> TRUE, rows |-> rows, msg |-> <<>>]),
               ![r].narr = "pending",
               ![r].log = Append(@, Event("narrate", Len(PromptRows(rows)), <<>>))]

\* EngineExecFail waiting a constant 1000 ms between attempts.
EngineExecFail_ConstantDelay(r, msg) ==
  /\ variant = "engine"
  /\ req[r].pc = "exec"
  /\ IF req[r].execAttempt = 3
       THEN req' = [req EXCEPT
                      ![r].pc = "done",
                      ![r].resp = Append(@, [ok |-> FALSE, rows |-> <<>>, msg |-> msg]),
                      ![r].result = EngineCatch(<<ExecFailedPrefix>> \o msg)]
       ELSE req' = [req EXCEPT
                      ![r].pc = "execWait",
                      ![r].resp = Append(@, [ok |-> FALSE, rows |-> <<>>, msg |-> msg]),
                      ![r].log = Append(@, Event("execWait", 1000, <<>>))]

\* EngineExecFail giving up one attempt late (attempt === 4).
EngineExecFail_OneMore(r, msg) ==
  /\ variant = "engine"
  /\ req[r].pc = "exec"
  /\ IF req[r].execAttempt = 4
       THEN req' = [req EXCEPT
                      ![r].pc = "done",
                      ![r].resp = Append(@, [ok |-> FALSE, rows |-> <<>>, msg |-> msg]),
                      ![r].result = EngineCatch(<<ExecFailedPrefix>> \o msg)]
       ELSE req' = [req EXCEPT
                      ![r].pc = "execWait",
                      ![r].resp = Append(@, [ok |-> FALSE, rows |-> <<>>, msg |-> msg]),
                      ![r].log = Append(@, Event("execWait", 1000 * req[r].execAttempt, <<>>))]

\* Lines 41-50: the store call rejected.
EngineExecFail(r, msg) ==
  /\ variant = "engine"
  /\ req[r].pc = "exec"
  /\ IF req[r].execAttempt = 3
       THEN req' = [req EXCEPT
                      ![r].pc = "done",
                      ![r].resp = Append(@, [ok |-> FALSE, rows |-> <<>>, msg |-> msg]),
                      ![r].result = EngineCatch(<<ExecFailedPrefix>> \o msg)]
       ELSE req' = [req EXCEPT
                      ![r].pc = "execWait",
                      ![r].resp = Append(@, [ok |-> FALSE, rows |-> <<>>, msg |-> msg]),
                      ![r].log = Append(@, Event("execWait", 1000 * req[r].execAttempt, <<>>))]

\* EngineExecRetry asking the backend for a new query before the next
\* attempt.
EngineExecRetry_Regenerates(r) ==
  /\ variant = "engine"
  /\ req[r].pc = "execWait"
  /\ req' = [req EXCEPT
               ![r].pc = "exec",
               ![r].execAttempt = @ + 1,
               ![r].log = @ \o <<Event("generate", 0, <<>>), Event("store", 0, req[r].cypher)>>]

\* Line 49 elapsed: the next execution attempt, with the same query.
EngineExecRetry(r) ==
  /\ variant = "engine"
  /\ req[r].pc = "execWait"
  /\ req' = [req EXCEPT
               ![r].pc = "exec",
               ![r].execAttempt = @ + 1,
               ![r].log = Append(@, Event("store", 0, req[r].cypher))]

\* Lines 54-60: the backend answered.
EngineNarrOk(r) ==
  /\ variant = "engine"
  /\ req[r].pc = "narr"
  /\ req' = [req EXCEPT
               ![r].pc = "done",
               ![r].narr = "ok",
               ![r].result = [NoResult EXCEPT
                                !.kind = "ok",
                                !.keys = {"cypher", "data", "answer"},
                                !.cypher = req[r].cypher,
                                !.data = req[r].data,
                                !.answer = Generated]]

\* verbalizeAnswer threw: the catch block of answerUserQuery.
EngineNarrFail(r) ==
  /\ variant = "engine"
  /\ req[r].pc = "narr"
  /\ req' = [req EXCEPT
               ![r].pc = "done",
               ![r].narr = "failed",
               ![r].result = EngineCatch(<<MsgBackend>>)]

EngineStep(r) ==
  \/ EngineStart(r)
  \/ \E text \in Texts(MaxGenTokens) : EngineGenOk(r, text)
  \/ \E why \in {"metadataPromise", "getSchemaMetadata", "backend"} : EngineGenFail(r, why)
  \/ EngineGenRetry(r)
  \/ \E rows \in ResultSets : EngineExecOk(r, rows)
  \/ \E msg \in StoreErrors : EngineExecFail(r, msg)
  \/ EngineExecRetry(r)
  \/ EngineNarrOk(r)
  \/ EngineNarrFail(r)

(***************************************************************************)
(* queryUnderstanding.js, lines 1-287: schema-driven generation            *)
(***************************************************************************)
NotTrackedMsg == "The knowledge graph doesn't contain data matching your query. The requested information may not exist in the current dataset."
NoResultsMsg == "No results found. This could mean the data doesn't exist or the query filters were too restrictive."
DirectNumberMsg == "The <key> is <value>."
YesMsg == "Yes, this data exists in the knowledge graph."
NoMsg == "No, this data doesn't exist in the knowledge graph."

\* What generateCypherFromSchema can return (JSON.parse of the backend's
\* answer): the query, and expectsResults as true, false or anything else.
TranslatorResponses ==
  [cypher : {Sentinel, <<"TXT">>}, expects : {"true", "false", "absent"}]

\* narrateResults without the typeof checks: any single value is put into
\* the "The <key> is <value>." sentence.
narrateResults_AnyValue(data, expectsResults) ==
  IF Len(data) = 0
    THEN IF expectsResults = "false" THEN NotTrackedMsg ELSE NoResultsMsg
  ELSE IF Len(data) = 1 /\ Len(data[1]) = 1 THEN DirectNumberMsg
  ELSE ""

\* narrateResults testing !expectsResults instead of expectsResults === false.
narrateResults_Falsy(data, expectsResults) ==
  IF Len(data) = 0
    THEN IF expectsResults # "true" THEN NotTrackedMsg ELSE NoResultsMsg
  ELSE IF Len(data) = 1 /\ Len(data[1]) = 1 /\ data[1][1] = "num" THEN DirectNumberMsg
  ELSE IF Len(data) = 1 /\ Len(data[1]) = 1 /\ data[1][1] = "true" THEN YesMsg
  ELSE IF Len(data) = 1 /\ Len(data[1]) = 1 /\ data[1][1] = "false" THEN NoMsg
  ELSE ""

\* narrateResults, lines 189-208: the answer it returns without the
\* backend, "" when it goes on to the backend call of lines 211-233.
narrateResults(data, expectsResults) ==
  IF Len(data) = 0
    THEN IF expectsResults = "false" THEN NotTrackedMsg ELSE NoResultsMsg
  ELSE IF Len(data) = 1 /\ Len(data[1]) = 1 /\ data[1][1] = "num" THEN DirectNumberMsg
  ELSE IF Len(data) = 1 /\ Len(data[1]) = 1 /\ data[1][1] = "true" THEN YesMsg
  ELSE IF Len(data) = 1 /\ Len(data[1]) = 1 /\ data[1][1] = "false" THEN NoMsg
  ELSE ""

\* The catch block, lines 269-286.
SchemaCatch(msg) ==
  [NoResult EXCEPT
     !.kind = "error",
     !.keys = {"answer", "error", "confidence"},
     !.error = msg,
     !.confidence = 0,
     !.answer =
       IF Includes(msg, "Neo4j") \/ Includes(msg, "Cypher")
         THEN "I couldn't generate a valid query for that question. Could you rephrase it or be more specific?"
         ELSE "An error occurred while processing your question. Please try again."]

\* Lines 239-244, with getSchema() of schemaMetadata.js: a cached
\* descriptor is returned at once and the generation call is made;
\* otherwise this call issues its own discovery pass.
SchemaStart(r) ==
  /\ variant = "schema"
  /\ req[r].pc = "idle"
  /\ IF schemaCache # 0
       THEN /\ req' = [req EXCEPT ![r].pc = "gen",
                                  ![r].log = Append(@, Event("generate", 0, <<>>))]
            /\ returned' = returned \cup {schemaCache}
            /\ UNCHANGED discoveryPasses
       ELSE /\ req' = [req EXCEPT ![r].pc = "schema", ![r].pass = discoveryPasses + 1]
            /\ discoveryPasses' = discoveryPasses + 1
            /\ UNCHANGED returned
  /\ UNCHANGED <<schemaCache, failedPasses, stored, gsPc, gsPass, gsRet, gsCalls>>

\* The discovery pass of this call resolved (schemaMetadata.js 59-137).
SchemaLoaded(r) ==
  /\ variant = "schema"
  /\ req[r].pc = "schema"
  /\ schemaCache' = req[r].pass
  /\ stored' = stored \cup {req[r].pass}
  /\ returned' = returned \cup {req[r].pass}
  /\ req' = [req EXCEPT ![r].pc = "gen",
                        ![r].log = Append(@, Event("generate", 0, <<>>))]
  /\ UNCHANGED <<discoveryPasses, failedPasses, gsPc, gsPass, gsRet, gsCalls>>

\* The discovery pass rejected: getSchema rethrows, answerUserQuery catches.
SchemaLoadFail(r) ==
  /\ variant = "schema"
  /\ req[r].pc = "schema"
  /\ failedPasses' = failedPasses + 1
  /\ req' = [req EXCEPT ![r].pc = "done",
                        ![r].result = SchemaCatch(<<MsgUnavailable>>)]
  /\ UNCHANGED <<schemaCache, discoveryPasses, stored, returned, gsPc, gsPass, gsRet, gsCalls>>

\* Lines 244-254: the translator answered; its query goes to the store.
SchemaGenOk(r, tr) ==
  /\ variant = "schema"
  /\ req[r].pc = "gen"
  /\ req' = [req EXCEPT
               ![r].pc = "exec",
               ![r].cypher = tr.cypher,
               ![r].expects = tr.expects,
               ![r].execAttempt = 1,
               ![r].log = Append(@, Event("store", 0, tr.cypher))]
  /\ UNCHANGED schemaVars

\* The backend call or JSON.parse threw.
SchemaGenFail(r) ==
  /\ variant = "schema"
  /\ req[r].pc = "gen"
  /\ req' = [req EXCEPT ![r].pc = "done", ![r].result = SchemaCatch(<<MsgBackend>>)]
  /\ UNCHANGED schemaVars

\* Lines 254-267: the store call resolved and narrateResults runs up to
\* its return or its backend call.
SchemaExecOk(r, rows) ==
  /\ variant = "schema"
  /\ req[r].pc = "exec"
  /\ rows \in StoreRows(req[r].cypher)
  /\ LET direct == narrateResults(rows, req[r].expects)
         resp2 == Append(req[r].resp, [ok |-> TRUE, rows |-> rows, msg |-> <<>>])
     IN  IF direct # ""
           THEN req' = [req EXCEPT
                          ![r].pc = "done",
                          ![r].data = rows,
                          ![r].resp = resp2,
                          ![r].result = [NoResult EXCEPT
                             !.kind = "ok",
                             !.keys = {"answer", "data", "cypher", "reasoning", "confidence"},
                             !.answer = direct,
                             !.data = rows,
                             !.cypher = req[r].cypher,
                             !.confidence = IF Len(rows) > 0 THEN 1 ELSE 0]]
           ELSE req' = [req EXCEPT
                          ![r].pc = "narr",
                          ![r].data = rows,
                          ![r].resp = resp2,
                          ![r].narr = "pending",
                          ![r].log = Append(@, Event("narrate", Len(rows), <<>>))]
  /\ UNCHANGED schemaVars

\* SchemaExecFail with the rejection taken for an empty result.
SchemaExecFail_Swallowed(r, msg) ==
  /\ variant = "schema"
  /\ req[r].pc = "exec"
  /\ req' = [req EXCEPT
               ![r].pc = "done",
               ![r].resp = Append(@, [ok |-> FALSE, rows |-> <<>>, msg |-> msg]),
               ![r].result = [NoResult EXCEPT
                  !.kind = "ok",
                  !.keys = {"answer", "data", "cypher", "reasoning", "confidence"},
                  !.answer = NoResultsMsg,
                  !.cypher = req[r].cypher,
                  !.confidence = 0]]
  /\ UNCHANGED schemaVars

\* The store call rejected: straight to the catch block.
SchemaExecFail(r, msg) ==
  /\ variant = "schema"
  /\ req[r].pc = "exec"
  /\ req' = [req EXCEPT
               ![r].pc = "done",
               ![r].resp = Append(@, [ok |-> FALSE, rows |-> <<>>, msg |-> msg]),
               ![r].result = SchemaCatch(msg)]
  /\ UNCHANGED schemaVars

\* Lines 223-233 and 259-267: the narration came back.
SchemaNarrOk(r) ==
  /\ variant = "schema"
  /\ req[r].pc = "narr"
  /\ req' = [req EXCEPT
               ![r].pc = "done",
               ![r].narr = "ok",
               ![r].result = [NoResult EXCEPT
                  !.kind = "ok",
                  !.keys = {"answer", "data", "cypher", "reasoning", "confidence"},
                  !.answer = Generated,
                  !.data = req[r].data,
                  !.cypher = req[r].cypher,
                  !.confidence = IF Len(req[r].data) > 0 THEN 1 ELSE 0]]
  /\ UNCHANGED schemaVars

SchemaNarrFail(r) ==
  /\ variant = "schema"
  /\ req[r].pc = "narr"
  /\ req' = [req EXCEPT ![r].pc = "done", ![r].narr = "failed",
                        ![r].result = SchemaCatch(<<MsgBackend>>)]
  /\ UNCHANGED schemaVars

SchemaStep(r) ==
  \/ SchemaStart(r)
  \/ SchemaLoaded(r)
  \/ SchemaLoadFail(r)
  \/ \E tr \in TranslatorResponses : SchemaGenOk(r, tr)
  \/ SchemaGenFail(r)
  \/ \E rows \in ResultSets : SchemaExecOk(r, rows)
  \/ \E msg \in StoreErrors : SchemaExecFail(r, msg)
  \/ SchemaNarrOk(r)
  \/ SchemaNarrFail(r)

(***************************************************************************)
(* queryUnderstanding.js, lines 288-922: the intent pipeline               *)
(*                                                                         *)
(* A question is what the code reads of it: kw, the keywords that occur in *)
(* its lower-cased text, and what the two regular expressions of           *)
(* extractParams capture ("none": no match, "empty": the capture trims to  *)
(* the empty string, "word": a non-empty capture).                         *)
(***************************************************************************)
INTENTS ==
  {"ISSUE_SEVERITY", "ISSUE_TRENDS", "PRODUCT_ISSUES", "ISSUE_TIMELINE",
   "SOLUTION_EFFECTIVENESS", "SOLUTION_FOR_ISSUE", "EXPERIMENTAL_SOLUTIONS",
   "SOLUTION_SUCCESS_RATE", "PRODUCT_HEALTH", "PRODUCT_COMPARISON",
   "PRODUCT_IMPROVEMENT", "SOURCE_RELIABILITY", "EXPERT_CONSENSUS",
   "USER_CONTRIBUTION", "ISSUE_ROOT_CAUSE", "COMMON_PATTERNS"}

\* The keys of INTENT_QUERIES.
INTENT_QUERIES ==
  {"ISSUE_SEVERITY", "ISSUE_TRENDS", "PRODUCT_ISSUES", "SOLUTION_EFFECTIVENESS",
   "SOLUTION_FOR_ISSUE", "PRODUCT_HEALTH", "EXPERT_CONSENSUS", "SOURCE_RELIABILITY",
   "EXPERIMENTAL_SOLUTIONS", "ISSUE_ROOT_CAUSE"}

\* classifyIntent with the two fix/solve tests in the opposite order.
classifyIntent_Reordered(question) ==
  LET has(k) == k \in question.kw
  IN  IF has("severe") \/ has("worst") \/ has("critical") \/ has("priority")
        THEN "ISSUE_SEVERITY"
      ELSE IF has("trend") \/ has("emerging") \/ has("new issue")
        THEN "ISSUE_TRENDS"
      ELSE IF has("problem") /\ (has("with") \/ has("on"))
        THEN "PRODUCT_ISSUES"
      ELSE IF has("when") /\ has("start")
        THEN "ISSUE_TIMELINE"
      ELSE IF (has("fix") \/ has("solve")) /\ ~has("best")
        THEN "SOLUTION_FOR_ISSUE"
      ELSE IF (has("fix") \/ has("solve")) /\ (has("best") \/ has("work"))
        THEN "SOLUTION_EFFECTIVENESS"
      ELSE IF has("experimental")
        THEN "EXPERIMENTAL_SOLUTIONS"
      ELSE IF has("success rate")
        THEN "SOLUTION_SUCCESS_RATE"
      ELSE IF has("health") \/ has("problematic") \/ has("reliable")
        THEN "PRODUCT_HEALTH"
      ELSE IF has("compare") \/ has("vs") \/ has("versus")
        THEN "PRODUCT_COMPARISON"
      ELSE IF has("getting better") \/ has("improving")
        THEN "PRODUCT_IMPROVEMENT"
      ELSE IF has("source") /\ has("reliable")
        THEN "SOURCE_RELIABILITY"
      ELSE IF has("expert")
        THEN "EXPERT_CONSENSUS"
      ELSE IF has("why") \/ has("cause") \/ has("reason")
        THEN "ISSUE_ROOT_CAUSE"
      ELSE "ISSUE_SEVERITY"

\* classifyIntent with "work" missing from the effectiveness test.
classifyIntent_BestOnly(question) ==
  LET has(k) == k \in question.kw
  IN  IF has("severe") \/ has("worst") \/ has("critical") \/ has("priority")
        THEN "ISSUE_SEVERITY"
      ELSE IF has("trend") \/ has("emerging") \/ has("new issue")
        THEN "ISSUE_TRENDS"
      ELSE IF has("problem") /\ (has("with") \/ has("on"))
        THEN "PRODUCT_ISSUES"
      ELSE IF has("when") /\ has("start")
        THEN "ISSUE_TIMELINE"
      ELSE IF (has("fix") \/ has("solve")) /\ has("best")
        THEN "SOLUTION_EFFECTIVENESS"
      ELSE IF (has("fix") \/ has("solve")) /\ ~has("best")
        THEN "SOLUTION_FOR_ISSUE"
      ELSE IF has("experimental")
        THEN "EXPERIMENTAL_SOLUTIONS"
      ELSE IF has("success rate")
        THEN "SOLUTION_SUCCESS_RATE"
      ELSE IF has("health") \/ has("problematic") \/ has("reliable")
        THEN "PRODUCT_HEALTH"
      ELSE IF has("compare") \/ has("vs") \/ has("versus")
        THEN "PRODUCT_COMPARISON"
      ELSE IF has("getting better") \/ has("improving")
        THEN "PRODUCT_IMPROVEMENT"
      ELSE IF has("source") /\ has("reliable")
        THEN "SOURCE_RELIABILITY"
      ELSE IF has("expert")
        THEN "EXPERT_CONSENSUS"
      ELSE IF has("why") \/ has("cause") \/ has("reason")
        THEN "ISSUE_ROOT_CAUSE"
      ELSE "ISSUE_SEVERITY"

classifyIntent(question) ==
  LET has(k) == k \in question.kw
  IN  IF has("severe") \/ has("worst") \/ has("critical") \/ has("priority")
        THEN "ISSUE_SEVERITY"
      ELSE IF has("trend") \/ has("emerging") \/ has("new issue")
        THEN "ISSUE_TRENDS"
      ELSE IF has("problem") /\ (has("with") \/ has("on"))
        THEN "PRODUCT_ISSUES"
      ELSE IF has("when") /\ has("start")
        THEN "ISSUE_TIMELINE"
      ELSE IF (has("fix") \/ has("solve")) /\ (has("best") \/ has("work"))
        THEN "SOLUTION_EFFECTIVENESS"
      ELSE IF (has("fix") \/ has("solve")) /\ ~has("best")
        THEN "SOLUTION_FOR_ISSUE"
      ELSE IF has("experimental")
        THEN "EXPERIMENTAL_SOLUTIONS"
      ELSE IF has("success rate")
        THEN "SOLUTION_SUCCESS_RATE"
      ELSE IF has("health") \/ has("problematic") \/ has("reliable")
        THEN "PRODUCT_HEALTH"
      ELSE IF has("compare") \/ has("vs") \/ has("versus")
        THEN "PRODUCT_COMPARISON"
      ELSE IF has("getting better") \/ has("improving")
        THEN "PRODUCT_IMPROVEMENT"
      ELSE IF has("source") /\ has("reliable")
        THEN "SOURCE_RELIABILITY"
      ELSE IF has("expert")
        THEN "EXPERT_CONSENSUS"
      ELSE IF has("why") \/ has("cause") \/ has("reason")
        THEN "ISSUE_ROOT_CAUSE"
      ELSE "ISSUE_SEVERITY"

\* params.product and params.issue: "absent" when the key is not set.
extractParams(question, intent) ==
  [product |->
     IF intent \in {"PRODUCT_ISSUES", "PRODUCT_COMPARISON"} /\ question.product # "none"
       THEN question.product ELSE "absent",
   issue |->
     IF intent \in {"SOLUTION_FOR_ISSUE", "ISSUE_ROOT_CAUSE"} /\ question.issue # "none"
       THEN question.issue ELSE "absent"]

\* The strings classifyIntent looks for.
Keywords ==
  {"severe", "worst", "critical", "priority", "trend", "emerging", "new issue",
   "problem", "with", "on", "when", "start", "fix", "solve", "best", "work",
   "experimental", "success rate", "health", "problematic", "reliable",
   "compare", "vs", "versus", "getting better", "improving", "source",
   "expert", "why", "cause", "reason"}

\* String.prototype.includes finds a keyword inside another: a question
\* with "problematic" has "problem", one with "reason" has "on".
SubstringClosure(K) ==
  K \cup (IF "problematic" \in K THEN {"problem"} ELSE {})
    \cup (IF "reason" \in K THEN {"on"} ELSE {})

\* What the two regular expressions of extractParams can capture.
Captures == {"none", "empty", "word"}

\* The questions of the helper specification: up to MaxKeywords keywords.
RECURSIVE KeywordSets(_)
KeywordSets(n) ==
  IF n = 0 THEN {{}}
  ELSE LET smaller == KeywordSets(n - 1)
       IN  smaller \cup {S \cup {k} : S \in smaller, k \in Keywords}

KeywordQuestions ==
  { [kw |-> SubstringClosure(K), product |-> p, issue |-> i] :
      K \in KeywordSets(MaxKeywords), p \in Captures, i \in Captures }

\* Questions with a fix/solve keyword, a best/work keyword and one more.
EffectivenessQuestions ==
  { [kw |-> SubstringClosure({f, b, k}), product |-> "none", issue |-> "none"] :
      f \in {"fix", "solve"}, b \in {"best", "work"}, k \in Keywords }

\* classifyIntent(question) is called (line 853).
ClassifyInit ==
  \E question \in KeywordQuestions \cup EffectivenessQuestions :
    call = [fn |-> "classifyIntent", pc |-> "called", question |-> question,
            intent |-> "", params |-> [product |-> "absent", issue |-> "absent"]]

\* Lines 773-816.
ClassifyReturn ==
  /\ call.fn = "classifyIntent"
  /\ call.pc = "called"
  /\ call' = [call EXCEPT !.pc = "classified", !.intent = classifyIntent(call.question)]

\* Line 864, for an intent of the catalog.
ExtractParams ==
  /\ call.fn = "classifyIntent"
  /\ call.pc = "classified"
  /\ call.intent \in INTENT_QUERIES
  /\ call' = [call EXCEPT !.pc = "extracted",
                          !.params = extractParams(call.question, call.intent)]

\* "Which users reported the most issues?": none of the keywords occurs in
\* it and neither regular expression matches.
WhichUsersQuestion == [kw |-> {}, product |-> "none", issue |-> "none"]

\* What the rows of a catalog query rank (its first RETURN column).
RankedEntity(intent) ==
  CASE intent \in {"ISSUE_SEVERITY", "ISSUE_TRENDS", "PRODUCT_ISSUES",
                   "EXPERT_CONSENSUS", "ISSUE_ROOT_CAUSE"} -> "issue"
    [] intent \in {"SOLUTION_EFFECTIVENESS", "SOLUTION_FOR_ISSUE",
                   "EXPERIMENTAL_SOLUTIONS"} -> "solution"
    [] intent = "PRODUCT_HEALTH" -> "product"
    [] intent = "SOURCE_RELIABILITY" -> "source"
    [] OTHER -> "none"

\* Questions of the requests the pipelines are run on.
SampleQuestions ==
  { NoQuestion,
    WhichUsersQuestion,
    [kw |-> {"problem", "with"}, product |-> "word", issue |-> "none"],
    [kw |-> {"fix"}, product |-> "none", issue |-> "word"],
    [kw |-> {"compare"}, product |-> "none", issue |-> "none"] }

IntentNoDataMsg == "The knowledge graph found no data matching your query criteria."

\* The catch block, lines 915-921.
IntentCatch(msg) ==
  [NoResult EXCEPT
     !.kind = "error",
     !.keys = {"error", "details"},
     !.error = <<"Failed to execute graph query. Please try again.">>,
     !.details = msg]

\* Lines 853-867: classification, the catalog lookup, the parameters and
\* the store call.
IntentStart(r) ==
  /\ variant = "intent"
  /\ req[r].pc = "idle"
  /\ LET intent == classifyIntent(req[r].question)
     IN  IF intent \notin INTENT_QUERIES
           THEN req' = [req EXCEPT
                          ![r].pc = "done",
                          ![r].intent = intent,
                          ![r].result = [NoResult EXCEPT
                             !.kind = "error",
                             !.keys = {"error", "intent"},
                             !.error = <<"Query intent not supported. The graph cannot make a decision for this query.">>,
                             !.intent = intent]]
           ELSE req' = [req EXCEPT
                          ![r].pc = "exec",
                          ![r].intent = intent,
                          ![r].cypher = <<intent>>,
                          ![r].execAttempt = 1,
                          ![r].log = Append(@, Event("store", 0, <<intent>>))]

\* IntentExecOk without the empty-result branch of lines 869-878.
IntentExecOk_NoEmptyBranch(r, rows) ==
  /\ variant = "intent"
  /\ req[r].pc = "exec"
  /\ req' = [req EXCEPT
               ![r].pc = "narr",
               ![r].data = rows,
               ![r].resp = Append(@, [ok |-> TRUE, rows |-> rows, msg |-> <<>>]),
               ![r].narr = "pending",
               ![r].log = Append(@, Event("narrate", Len(rows), <<>>))]

\* Lines 867-904: the rows came back; an empty result is answered at once,
\* anything else goes to the narration call.
IntentExecOk(r, rows) ==
  /\ variant = "intent"
  /\ req[r].pc = "exec"
  /\ LET resp2 == Append(req[r].resp, [ok |-> TRUE, rows |-> rows, msg |-> <<>>])
     IN  IF Len(rows) = 0
           THEN req' = [req EXCEPT
                          ![r].pc = "done",
                          ![r].data = rows,
                          ![r].resp = resp2,
                          ![r].result = [NoResult EXCEPT
                             !.kind = "ok",
                             !.keys = {"answer", "cypher", "intent", "method", "confidence", "data"},
                             !.answer = IntentNoDataMsg,
                             !.cypher = req[r].cypher,
                             !.intent = req[r].intent,
                             !.confidence = 0]]
           ELSE req' = [req EXCEPT
                          ![r].pc = "narr",
                          ![r].data = rows,
                          ![r].resp = resp2,
                          ![r].narr = "pending",
                          ![r].log = Append(@, Event("narrate", Len(rows), <<>>))]

IntentExecFail(r, msg) ==
  /\ variant = "intent"
  /\ req[r].pc = "exec"
  /\ req' = [req EXCEPT
               ![r].pc = "done",
               ![r].resp = Append(@, [ok |-> FALSE, rows |-> <<>>, msg |-> msg]),
               ![r].result = IntentCatch(msg)]

\* Lines 897-913.
IntentNarrOk(r) ==
  /\ variant = "intent"
  /\ req[r].pc = "narr"
  /\ req' = [req EXCEPT
               ![r].pc = "done",
               ![r].narr = "ok",
               ![r].result = [NoResult EXCEPT
                  !.kind = "ok",
                  !.keys = {"answer", "cypher", "intent", "method", "confidence", "data"},
                  !.answer = Generated,
                  !.cypher = req[r].cypher,
                  !.intent = req[r].intent,
                  !.data = req[r].data,
                  !.confidence = 1]]

IntentNarrFail(r) ==
  /\ variant = "intent"
  /\ req[r].pc = "narr"
  /\ req' = [req EXCEPT ![r].pc = "done", ![r].narr = "failed",
                        ![r].result = IntentCatch(<<MsgBackend>>)]

IntentStep(r) ==
  \/ IntentStart(r)
  \/ \E rows \in ResultSets : IntentExecOk(r, rows)
  \/ \E msg \in StoreErrors : IntentExecFail(r, msg)
  \/ IntentNarrOk(r)
  \/ IntentNarrFail(r)

(***************************************************************************)
(* neo4jClient.js: the parameters handed to the store.  The file exists    *)
(* in two versions, neo4jClient.js and part_004; only the second has       *)
(* convertToNeo4jTypes.                                                    *)
(*                                                                         *)
(* A value is known by its kind: "int" is a number for which               *)
(* Number.isInteger holds, "float" any other number, "Integer" the         *)
(* driver's integer type (neo4j.int), an array by its items, a plain       *)
(* object by its entries.                                                  *)
(***************************************************************************)
ParamKeys == {"a", "b"}

FlatValues ==
  {[t |-> a] : a \in {"int", "float", "str", "null"}}
    \cup {[t |-> "array", items |-> <<"int", "int">>]}

\* Every map from some of the keys to values of V.
MapsTo(V) == UNION {[D -> V] : D \in SUBSET ParamKeys}

ParamValues == FlatValues \cup {[t |-> "object", f |-> m] : m \in MapsTo(FlatValues)}

ParamMaps == MapsTo(ParamValues)

\* convertToNeo4jTypes, part_004 lines 26-42.
RECURSIVE convertToNeo4jTypes(_)
convertToNeo4jTypes(params) ==
  [key \in DOMAIN params |->
     LET value == params[key]
     IN  IF value.t = "int" THEN [t |-> "Integer"]
         ELSE IF value.t = "object"
           THEN [t |-> "object", f |-> convertToNeo4jTypes(value.f)]
         ELSE value]

\* runCypher(query, params) or runCypherReadOnly(query, params) is called,
\* in one of the two versions of the client.
RunCypherInit ==
  \E fn \in {"runCypher", "runCypherReadOnly"}, file \in {"neo4jClient.js", "part_004"},
     params \in ParamMaps :
    call = [fn |-> fn, file |-> file, pc |-> "called", params |-> params,
            sent |-> [key \in {} |-> [t |-> "null"]]]

\* part_004 lines 47-58 and 63-74: the converted parameters go to the session.
RunCypherConverted ==
  /\ call.fn \in {"runCypher", "runCypherReadOnly"}
  /\ call.file = "part_004"
  /\ call.pc = "called"
  /\ call' = [call EXCEPT !.pc = "running", !.sent = convertToNeo4jTypes(call.params)]

\* neo4jClient.js lines 26-47: params go to the session as they are.
RunCypherPlain ==
  /\ call.fn \in {"runCypher", "runCypherReadOnly"}
  /\ call.file = "neo4jClient.js"
  /\ call.pc = "called"
  /\ call' = [call EXCEPT !.pc = "running", !.sent = call.params]

\* The session call resolved or rejected; the session is closed either way.
RunCypherSettle ==
  /\ call.fn \in {"runCypher", "runCypherReadOnly"}
  /\ call.pc = "running"
  /\ \E outcome \in {"returned", "threw"} : call' = [call EXCEPT !.pc = outcome]

(***************************************************************************)
(* server.js (part_000, and its earlier version part_001): the readiness   *)
(* gate and the POST /api/query handler.  The answerUserQuery call of the  *)
(* handler is one await whose outcome is a success object, an error        *)
(* payload or a rejection.                                                 *)
(***************************************************************************)
HttpRequests == {"h1", "h2"}
ServerFiles == {"part_000", "part_001"}

\* An entry of a submitted conversation history is known by its position
\* in the history, its role ("" when msg.role is falsy) and the length of
\* String(msg.content) (0 when msg.content is falsy).
HistoryRoles == <<"user", "assistant", "system", "">>
ContentLengths == <<20, 501, 500, 0>>

HistoryEntry(i, pattern) ==
  IF pattern = "valid"
    THEN [id |-> i, role |-> HistoryRoles[(i % 3) + 1], len |-> ContentLengths[((i \div 3) % 3) + 1]]
    ELSE [id |-> i, role |-> HistoryRoles[(i % 4) + 1], len |-> ContentLengths[((i \div 4) % 4) + 1]]

Histories ==
  {[i \in 1..n |-> HistoryEntry(i, pattern)] : n \in 0..MaxHistory, pattern \in {"valid", "mixed"}}

\* req.body: question is a non-empty string, missing, or of another type;
\* conversationHistory is an array (the default [] when absent) or not.
Bodies ==
  {[question |-> "string", array |-> TRUE, history |-> h] : h \in Histories}
    \cup {[question |-> q, array |-> TRUE, history |-> <<>>] : q \in {"missing", "notString"}}
    \cup {[question |-> "string", array |-> FALSE, history |-> <<>>]}

HistoryKept(msg) == msg.role # "" /\ msg.len > 0

\* part_000 lines 46-53 with slice(0, 10) in place of slice(-10).
trimmedHistory_FirstTen(conversationHistory) ==
  LET n == Len(conversationHistory)
      last == IF n > 10 THEN SubSeq(conversationHistory, 1, 10) ELSE conversationHistory
      kept == SelectSeq(last, HistoryKept)
  IN  [i \in 1..Len(kept) |->
         [id |-> kept[i].id,
          role |-> IF kept[i].role = "user" THEN "user" ELSE "assistant",
          len |-> IF kept[i].len > 500 THEN 500 ELSE kept[i].len]]

\* part_000 lines 46-53: slice(-10), filter, map.
trimmedHistory(conversationHistory) ==
  LET n == Len(conversationHistory)
      last == IF n > 10 THEN SubSeq(conversationHistory, n - 9, n) ELSE conversationHistory
      kept == SelectSeq(last, HistoryKept)
  IN  [i \in 1..Len(kept) |->
         [id |-> kept[i].id,
          role |-> IF kept[i].role = "user" THEN "user" ELSE "assistant",
          len |-> IF kept[i].len > 500 THEN 500 ELSE kept[i].len]]

NoHttp ==
  [pc |-> "none", body |-> [question |-> "missing", array |-> TRUE, history |-> <<>>],
   status |-> 0, called |-> FALSE, handed |-> <<>>]

\* No server is running.
ServerIdle ==
  /\ isServerReady = FALSE
  /\ startup = [file |-> "part_000", pc |-> "off"]
  /\ http = [h \in HttpRequests |-> NoHttp]

\* The module is loaded and app.listen is called.
ServerInit ==
  /\ isServerReady = FALSE
  /\ startup \in [file : ServerFiles, pc : {"listening"}]
  /\ http = [h \in HttpRequests |-> NoHttp]

\* The listen callback runs up to its await: initializeSchemaCache calls
\* getSchema, which finds schemaCache empty and issues the discovery pass.
StartupBegin ==
  /\ startup.pc = "listening"
  /\ startup' = [startup EXCEPT !.pc = "initializing"]
  /\ discoveryPasses' = discoveryPasses + 1
  /\ UNCHANGED <<schemaCache, failedPasses, stored, returned, gsPc, gsPass, gsRet, gsCalls,
                 isServerReady, http>>

\* The discovery pass resolved: the descriptor is cached and the callback
\* sets isServerReady (part_000 line 102, part_001 line 85).
StartupResolve ==
  /\ startup.pc = "initializing"
  /\ schemaCache' = discoveryPasses
  /\ stored' = stored \cup {discoveryPasses}
  /\ returned' = returned \cup {discoveryPasses}
  /\ isServerReady' = TRUE
  /\ startup' = [startup EXCEPT !.pc = "ready"]
  /\ UNCHANGED <<discoveryPasses, failedPasses, gsPc, gsPass, gsRet, gsCalls, http>>

\* StartupReject with the flag set after the try block instead of inside it.
StartupReject_ReadyAnyway ==
  /\ startup.pc = "initializing"
  /\ failedPasses' = failedPasses + 1
  /\ isServerReady' = TRUE
  /\ startup' = [startup EXCEPT !.pc = "failed"]
  /\ UNCHANGED <<schemaCache, discoveryPasses, stored, returned, gsPc, gsPass, gsRet, gsCalls, http>>

\* The discovery pass rejected.  part_000 catches and logs (lines 112-115);
\* part_001 has no try: the rejection of the callback's promise is
\* unhandled, which ends the process or is only reported, depending on the
\* runtime.
StartupReject ==
  /\ startup.pc = "initializing"
  /\ failedPasses' = failedPasses + 1
  /\ \E outcome \in {"failed", "crashed"} :
       /\ outcome = "crashed" => startup.file = "part_001"
       /\ startup' = [startup EXCEPT !.pc = outcome]
  /\ UNCHANGED <<schemaCache, discoveryPasses, stored, returned, gsPc, gsPass, gsRet, gsCalls,
                 isServerReady, http>>

\* POST /api/query arrives: part_000 lines 30-56, part_001 lines 30-46, up
\* to the response or to the await of answerUserQuery.
HttpQuery(h, body) ==
  /\ startup.pc \in {"initializing", "ready", "failed"}
  /\ http[h].pc = "none"
  /\ http' = [http EXCEPT ![h] =
       IF ~isServerReady
         THEN [NoHttp EXCEPT !.pc = "responded", !.body = body, !.status = 503]
       ELSE IF body.question # "string"
         THEN [NoHttp EXCEPT !.pc = "responded", !.body = body, !.status = 400]
       ELSE IF startup.file = "part_000" /\ ~body.array
         THEN [NoHttp EXCEPT !.pc = "responded", !.body = body, !.status = 500]
       ELSE [NoHttp EXCEPT !.pc = "awaiting", !.body = body, !.called = TRUE,
                           !.handed = IF startup.file = "part_000"
                                        THEN trimmedHistory(body.history) ELSE <<>>]]
  /\ UNCHANGED <<schemaVars, isServerReady, startup>>

\* answerUserQuery settled: part_000 lines 58-78.
HttpAnswer(h, outcome) ==
  /\ startup.pc # "crashed"
  /\ http[h].pc = "awaiting"
  /\ http' = [http EXCEPT ![h].pc = "responded",
                          ![h].status = CASE outcome = "ok" -> 200
                                          [] outcome = "error" -> 400
                                          [] outcome = "threw" -> 500]
  /\ UNCHANGED <<schemaVars, isServerReady, startup>>

(***************************************************************************)
(* Specifications                                                          *)
(***************************************************************************)
SendIdle ==
  /\ genText = <<>>
  /\ sendVia = "engine"
  /\ sentText = <<>>
  /\ sendPc = "sent"

\* No helper call is under way.
CallIdle == call = [fn |-> "none", pc |-> "idle"]

PipeIdle ==
  /\ variant = "engine"
  /\ req = [r \in Requests |-> IdleRequest(NoQuestion)]

\* The descriptor the server's startup stored (initializeSchemaCache).
SchemaWarm ==
  /\ schemaCache = 1
  /\ discoveryPasses = 1
  /\ failedPasses = 0
  /\ stored = {1}
  /\ returned = {1}
  /\ gsPc = [c \in Callers |-> "idle"]
  /\ gsPass = [c \in Callers |-> 0]
  /\ gsRet = [c \in Callers |-> 0]
  /\ gsCalls = [c \in Callers |-> 0]

\* One deployment of one of the pipelines, serving request r1: the
\* question matters to the intent pipeline alone, the schema cache to the
\* schema-driven pipeline alone.
PipeInit ==
  /\ variant \in Variants
  /\ \E q \in SampleQuestions :
       /\ variant # "intent" => q = NoQuestion
       /\ req = [r \in Requests |-> IdleRequest(IF r = "r1" THEN q ELSE NoQuestion)]
  /\ SendIdle
  /\ CallIdle
  /\ ServerIdle
  /\ \/ SchemaInit
     \/ variant = "schema" /\ SchemaWarm

Init == PipeInit

Next ==
  \/ EngineStep("r1") /\ UNCHANGED <<schemaVars, sendVars, variant, fnVars, srvVars>>
  \/ SchemaStep("r1") /\ UNCHANGED <<sendVars, variant, fnVars, srvVars>>
  \/ IntentStep("r1") /\ UNCHANGED <<schemaVars, sendVars, variant, fnVars, srvVars>>

Spec == Init /\ [][Next]_vars

\* Every external call returns and every timer fires.
SpecLive == Spec /\ WF_vars(Next)

\* verbalizeAnswer on result sets of every size.
InitVerbalize == VerbalizeInit /\ SchemaInit /\ SendIdle /\ PipeIdle /\ ServerIdle

NextVerbalize ==
  \/ VerbalizeBuild /\ UNCHANGED <<schemaVars, sendVars, pipeVars, srvVars>>
  \/ VerbalizeReturn /\ UNCHANGED <<schemaVars, sendVars, pipeVars, srvVars>>
  \/ VerbalizeThrow /\ UNCHANGED <<schemaVars, sendVars, pipeVars, srvVars>>

SpecVerbalize == InitVerbalize /\ [][NextVerbalize]_vars

\* WEIGHTS (queryUnderstanding.js lines 302-325), in tenths.
WEIGHTS ==
  [expertise |-> [expert |-> 20, intermediate |-> 15, novice |-> 10, unknown |-> 8],
   certainty |-> [high |-> 20, medium |-> 15, low |-> 10],
   outcome |-> [resolved |-> 10, improved |-> 7, no_change |-> 3, worse |-> 0],
   solution_type |-> [permanent |-> 12, workaround |-> 8, partial |-> 6]]

\* The values u.user_expertise_level and c.post_fix_outcome take in the store.
ExpertiseLevels == {"expert", "intermediate", "novice", "unknown"}
OutcomeLevels == {"resolved", "improved", "no_change", "worse"}

\* The catalog queries that weight their rows.
WeightedIntents == {"ISSUE_SEVERITY", "SOLUTION_EFFECTIVENESS"}

\* CASE u.user_expertise_level ... END of the query of `intent`, in tenths:
\* lines 382-386 (ISSUE_SEVERITY) and 502-505 (SOLUTION_EFFECTIVENESS).
ExpertiseCase(intent, level) ==
  IF intent = "ISSUE_SEVERITY"
    THEN CASE level = "expert" -> 20
           [] level = "intermediate" -> 15
           [] level = "novice" -> 10
           [] OTHER -> 8
    ELSE CASE level = "expert" -> 20
           [] level = "intermediate" -> 15
           [] OTHER -> 10

\* CASE c.post_fix_outcome ... END, lines 497-501, in tenths.
OutcomeCase(level) ==
  CASE level = "resolved" -> 10
    [] level = "improved" -> 7
    [] level = "no_change" -> 3
    [] OTHER -> 0

\* The matched (user, report) pairs of one issue or solution.
MatchedRows(n) ==
  UNION {[1..k -> [expertise : ExpertiseLevels, outcome : OutcomeLevels]] : k \in 0..n}

\* sum(CASE ...) AS expertise_weight and AS success_score over the group.
RECURSIVE ExpertiseWeight(_, _)
ExpertiseWeight(intent, rows) ==
  IF rows = <<>> THEN 0
  ELSE ExpertiseCase(intent, Head(rows).expertise) + ExpertiseWeight(intent, Tail(rows))

RECURSIVE SuccessScore(_)
SuccessScore(rows) ==
  IF rows = <<>> THEN 0
  ELSE OutcomeCase(Head(rows).outcome) + SuccessScore(Tail(rows))

WeightsInit ==
  \E intent \in WeightedIntents, rows \in MatchedRows(MaxReports) :
    call = [fn |-> "INTENT_QUERIES", pc |-> "matched", intent |-> intent, rows |-> rows,
            expertise_weight |-> 0, success_score |-> 0]

\* The WITH clause of the query aggregates the group.
WeightsAggregate ==
  /\ call.fn = "INTENT_QUERIES"
  /\ call.pc = "matched"
  /\ call' = [call EXCEPT
                !.pc = "aggregated",
                !.expertise_weight = ExpertiseWeight(call.intent, call.rows),
                !.success_score = IF call.intent = "SOLUTION_EFFECTIVENESS"
                                    THEN SuccessScore(call.rows) ELSE 0]

\* The store's result for the group is read back.
WeightsReturn ==
  /\ call.fn = "INTENT_QUERIES"
  /\ call.pc = "aggregated"
  /\ call' = [call EXCEPT !.pc = "returned"]

\* The weighted catalog queries on the groups of MatchedRows.
InitWeights == WeightsInit /\ SchemaInit /\ SendIdle /\ PipeIdle /\ ServerIdle

NextWeights ==
  \/ WeightsAggregate /\ UNCHANGED <<schemaVars, sendVars, pipeVars, srvVars>>
  \/ WeightsReturn /\ UNCHANGED <<schemaVars, sendVars, pipeVars, srvVars>>

SpecWeights == InitWeights /\ [][NextWeights]_vars

\* classifyIntent and extractParams on the questions of KeywordQuestions.
InitClassify == ClassifyInit /\ SchemaInit /\ SendIdle /\ PipeIdle /\ ServerIdle

NextClassify ==
  \/ ClassifyReturn /\ UNCHANGED <<schemaVars, sendVars, pipeVars, srvVars>>
  \/ ExtractParams /\ UNCHANGED <<schemaVars, sendVars, pipeVars, srvVars>>

SpecClassify == InitClassify /\ [][NextClassify]_vars

\* runCypher and runCypherReadOnly on the parameter maps of ParamMaps.
InitRunCypher == RunCypherInit /\ SchemaInit /\ SendIdle /\ PipeIdle /\ ServerIdle

NextRunCypher ==
  \/ RunCypherConverted /\ UNCHANGED <<schemaVars, sendVars, pipeVars, srvVars>>
  \/ RunCypherPlain /\ UNCHANGED <<schemaVars, sendVars, pipeVars, srvVars>>
  \/ RunCypherSettle /\ UNCHANGED <<schemaVars, sendVars, pipeVars, srvVars>>

SpecRunCypher == InitRunCypher /\ [][NextRunCypher]_vars

\* The server, from app.listen on, with two query requests.
InitServer == ServerInit /\ SchemaInit /\ SendIdle /\ PipeIdle /\ CallIdle

NextServer ==
  \/ StartupBegin /\ UNCHANGED <<sendVars, pipeVars, fnVars>>
  \/ StartupResolve /\ UNCHANGED <<sendVars, pipeVars, fnVars>>
  \/ StartupReject /\ UNCHANGED <<sendVars, pipeVars, fnVars>>
  \/ \E h \in HttpRequests, body \in Bodies :
       HttpQuery(h, body) /\ UNCHANGED <<sendVars, pipeVars, fnVars>>
  \/ \E h \in HttpRequests, outcome \in {"ok", "error", "threw"} :
       HttpAnswer(h, outcome) /\ UNCHANGED <<sendVars, pipeVars, fnVars>>

SpecServer == InitServer /\ [][NextServer]_vars

\* Two requests in flight at once, interleaved at their awaits; the
\* external responses are drawn from two result sets and one store error.
PairResults == {<<>>, << <<"str", "num">>, <<"str", "num">> >>}

PairInit ==
  /\ variant \in Variants
  /\ \E q1, q2 \in {NoQuestion, WhichUsersQuestion, [kw |-> {"fix"}, product |-> "none", issue |-> "word"]} :
       /\ variant # "intent" => (q1 = NoQuestion /\ q2 = NoQuestion)
       /\ req = [r \in Requests |-> IdleRequest(IF r = "r1" THEN q1 ELSE q2)]
  /\ SendIdle
  /\ CallIdle
  /\ ServerIdle
  /\ \/ SchemaInit
     \/ variant = "schema" /\ SchemaWarm

PairEngineStep(r) ==
  \/ EngineStart(r)
  \/ EngineGenOk(r, <<"TXT">>)
  \/ \E why \in {"metadataPromise", "backend"} : EngineGenFail(r, why)
  \/ EngineGenRetry(r)
  \/ \E rows \in PairResults : EngineExecOk(r, rows)
  \/ EngineExecFail(r, <<MsgUnavailable>>)
  \/ EngineExecRetry(r)
  \/ EngineNarrOk(r)
  \/ EngineNarrFail(r)

PairSchemaStep(r) ==
  \/ SchemaStart(r)
  \/ SchemaLoaded(r)
  \/ SchemaLoadFail(r)
  \/ \E tr \in TranslatorResponses : tr.expects # "absent" /\ SchemaGenOk(r, tr)
  \/ SchemaGenFail(r)
  \/ \E rows \in PairResults \cup {<< <<"str">> >>} : SchemaExecOk(r, rows)
  \/ SchemaExecFail(r, <<MsgUnavailable>>)
  \/ SchemaNarrOk(r)
  \/ SchemaNarrFail(r)

PairIntentStep(r) ==
  \/ IntentStart(r)
  \/ \E rows \in PairResults : IntentExecOk(r, rows)
  \/ IntentExecFail(r, <<MsgUnavailable>>)
  \/ IntentNarrOk(r)
  \/ IntentNarrFail(r)

NextPair ==
  \/ \E r \in Requests :
       PairEngineStep(r) /\ UNCHANGED <<schemaVars, sendVars, variant, fnVars, srvVars>>
  \/ \E r \in Requests :
       PairSchemaStep(r) /\ UNCHANGED <<sendVars, variant, fnVars, srvVars>>
  \/ \E r \in Requests :
       PairIntentStep(r) /\ UNCHANGED <<schemaVars, sendVars, variant, fnVars, srvVars>>

SpecPair == PairInit /\ [][NextPair]_vars

\* getSchema() called directly by concurrent callers.
InitSchema == SchemaInit /\ SendIdle /\ PipeIdle /\ CallIdle /\ ServerIdle

NextSchema ==
  \E c \in Callers :
    \/ GetSchemaCall(c) /\ UNCHANGED <<sendVars, pipeVars, fnVars, srvVars>>
    \/ DiscoveryResolve(c) /\ UNCHANGED <<sendVars, pipeVars, fnVars, srvVars>>
    \/ DiscoveryReject(c) /\ UNCHANGED <<sendVars, pipeVars, fnVars, srvVars>>

SpecSchema == InitSchema /\ [][NextSchema]_vars

\* Every generated text on its way to the store.
InitSend == SendInit /\ SchemaInit /\ PipeIdle /\ CallIdle /\ ServerIdle

NextSend ==
  \/ EngineSend /\ UNCHANGED <<schemaVars, pipeVars, fnVars, srvVars>>
  \/ SchemaSend /\ UNCHANGED <<schemaVars, pipeVars, fnVars, srvVars>>

SpecSend == InitSend /\ [][NextSend]_vars

(***************************************************************************)
(* C1: when several getSchema() calls are started while schemaCache is     *)
(* still empty, exactly one discovery pass is issued: the calls that are   *)
(* awaiting all await the same pass, and a new pass is started only after  *)
(* an earlier one failed.                                                  *)
(***************************************************************************)
C1_SingleFlight ==
  /\ \A c, d \in Callers :
       (gsPc[c] = "awaiting" /\ gsPc[d] = "awaiting") => gsPass[c] = gsPass[d]
  /\ discoveryPasses <= failedPasses + 1

(***************************************************************************)
(* C2: every getSchema() call that returns, returns the same descriptor    *)
(* instance, and a descriptor stored in schemaCache is never replaced by   *)
(* another object.                                                         *)
(***************************************************************************)
C2_SameInstance ==
  /\ Cardinality(returned) <= 1
  /\ Cardinality(stored) <= 1

\* The last part of C2 on its own: a call made after population issues no
\* introspection query.
C2_NoDiscoveryAfterPopulation ==
  [][schemaCache # 0 => discoveryPasses' = discoveryPasses]_vars

(***************************************************************************)
(* The calls a request made, read off its log.                             *)
(***************************************************************************)
IsExecEvent(e) == e.ev \in {"store", "execWait"}
IsGenerate(e) == e.ev = "generate"
IsStore(e) == e.ev = "store"
IsNarrate(e) == e.ev = "narrate"

ExecEvents(q) == SelectSeq(q.log, IsExecEvent)
GenerateCalls(q) == Len(SelectSeq(q.log, IsGenerate))
StoreCalls(q) == Len(SelectSeq(q.log, IsStore))
NarrateCalls(q) == Len(SelectSeq(q.log, IsNarrate))

\* The request the pipelines serve.
Served == {"r1"}

(***************************************************************************)
(* C3: in queryEngine's answerUserQuery, when the store call fails on      *)
(* execution attempts 1 and 2 and succeeds on attempt 3, the rows of       *)
(* attempt 3 are the data handed to the narration and, once the narration  *)
(* has answered, the returned object holds these rows and no error field.  *)
(***************************************************************************)
C3_ThirdAttemptRowsReturned ==
  \A r \in Requests :
    LET q == req[r]
    IN  (variant = "engine" /\ Len(q.resp) = 3
           /\ ~q.resp[1].ok /\ ~q.resp[2].ok /\ q.resp[3].ok)
        => /\ q.pc \in {"narr", "done"}
           /\ q.data = q.resp[3].rows
           /\ NarrateCalls(q) = 1
           /\ q.log[Len(q.log)] = Event("narrate", Len(PromptRows(q.resp[3].rows)), <<>>)
           /\ (q.pc = "done" /\ q.narr = "ok")
                => /\ q.result.kind = "ok"
                   /\ q.result.data = q.resp[3].rows
                   /\ q.result.answer = Generated
                   /\ "error" \notin q.result.keys

\* C3's case: two failures, then rows, narrated and returned.
C3_Witness ==
  LET q == req["r1"]
  IN  /\ variant = "engine" /\ q.pc = "done" /\ q.narr = "ok"
      /\ Len(q.resp) = 3 /\ ~q.resp[1].ok /\ ~q.resp[2].ok /\ q.resp[3].ok
      /\ Len(q.resp[3].rows) = 2
      /\ q.result.data = q.resp[3].rows

(***************************************************************************)
(* C4: in queryEngine's answerUserQuery the store is called at most 3      *)
(* times per request and not again after a success; failed attempt k       *)
(* (k = 1, 2) is followed by a wait of k * 1000 ms and then attempt k+1;   *)
(* the execution error is produced only by the third failure, which is     *)
(* followed by no wait and no further attempt.                             *)
(***************************************************************************)
C4_RetryBackoff ==
  \A r \in Requests :
    LET q == req[r]
        ev == ExecEvents(q)
        failed == {k \in 1..Len(q.resp) : ~q.resp[k].ok}
        execError == q.result.kind = "error" /\ Includes(q.result.details, "execution failed")
    IN  variant = "engine"
        => /\ StoreCalls(q) <= 3
           /\ Len(q.resp) <= StoreCalls(q)
           /\ \A k \in 1..Len(q.resp) : q.resp[k].ok => k = Len(q.resp) /\ k = StoreCalls(q)
           /\ \A i \in 1..Len(ev) :
                IF i % 2 = 1
                  THEN ev[i].ev = "store"
                  ELSE /\ ev[i].ev = "execWait"
                       /\ ev[i].ms = (i \div 2) * 1000
                       /\ ~q.resp[i \div 2].ok
           /\ \A k \in failed : k < 3 => Len(ev) >= 2 * k
           /\ execError <=> failed = {1, 2, 3}
           /\ failed = {1, 2, 3} => (q.pc = "done" /\ Len(ev) = 5)

\* C4's case: the waits of 1000 and 2000 ms were made and the third failure
\* ended the request.
C4_Witness ==
  LET q == req["r1"]
  IN  /\ variant = "engine" /\ q.pc = "done"
      /\ Len(q.resp) = 3 /\ ~q.resp[3].ok
      /\ ExecEvents(q)[2].ms = 1000 /\ ExecEvents(q)[4].ms = 2000
      /\ Includes(q.result.details, "execution failed")

C6_BoundedAndTerminates ==
  /\ [](\A r \in Requests :
          /\ GenerateCalls(req[r]) <= 2
          /\ StoreCalls(req[r]) <= 3
          /\ NarrateCalls(req[r]) <= 1)
  /\ <>(\A r \in Served :
          /\ req[r].pc = "done"
          /\ req[r].result.kind \in {"ok", "error"}
          /\ req[r].result.kind = "error" => "error" \in req[r].result.keys)

\* C6's case: both bounds are met, two generation calls and three store
\* calls, and the request has ended with an error payload.
C6_Witness ==
  LET q == req["r1"]
  IN  /\ q.pc = "done" /\ GenerateCalls(q) = 2 /\ StoreCalls(q) = 3
      /\ q.result.kind = "error"

(***************************************************************************)
(* The cap on returned rows of a query text: the numeral of the LIMIT      *)
(* clause that ends it (before a closing semicolon and white space).       *)
(***************************************************************************)
RECURSIVE StripEnd(_)
StripEnd(s) ==
  IF s # <<>> /\ s[Len(s)] \in {"NL", ";"} THEN StripEnd(SubSeq(s, 1, Len(s) - 1)) ELSE s

RECURSIVE LastLimit(_, _)
LastLimit(s, k) ==
  IF k = 0 THEN 0
  ELSE IF s[k] = "LIMIT" THEN k
  ELSE IF s[k] = "NL" THEN LastLimit(s, k - 1)
  ELSE 0

HasRowCap(s) ==
  LET core == StripEnd(s)
  IN  /\ core # <<>>
      /\ IsNum(core[Len(core)])
      /\ LastLimit(core, Len(core) - 1) # 0

RowCap(s) == NumVal(StripEnd(s)[Len(StripEnd(s))])

(***************************************************************************)
(* C7: the query sent to the store has an effective cap on returned rows   *)
(* of at most 100, whatever text the generator produced.                   *)
(***************************************************************************)
C7_SentQueryBounded ==
  sendPc = "sent" => (HasRowCap(sentText) /\ RowCap(sentText) <= 100)

\* C7 on the path through optimizeCypher alone.
C7_OptimizedQueryBounded ==
  (sendPc = "sent" /\ sendVia = "engine") =>
     (HasRowCap(sentText) /\ RowCap(sentText) <= 100)

\* The two rewrites C7 names do happen: a text without the letters "limit"
\* gets LIMIT 100 appended, and a single LIMIT above 100 becomes LIMIT 100.
C7_PlainCasesBounded ==
  (sendPc = "sent" /\ sendVia = "engine"
     /\ Cardinality({i \in 1..Len(genText) : genText[i] \in {"LIMIT", "IDLIM"}}) = 0
     /\ \A i \in 1..Len(genText) : genText[i] \notin {";", "NL", "FENCE", "FENCEC"})
  => (HasRowCap(sentText) /\ RowCap(sentText) = 100)

\* Whether the last store call of a request resolved with zero rows.
EmptyResult(q) ==
  /\ Len(q.resp) >= 1
  /\ q.resp[Len(q.resp)].ok
  /\ Len(q.resp[Len(q.resp)].rows) = 0

(***************************************************************************)
(* C8: for an empty result set narrateResults returns the "not tracked"    *)
(* message exactly when the translator said expectsResults = false, the    *)
(* "no results" message in every other case, and the two messages differ.  *)
(***************************************************************************)
C8_EmptySetMessages ==
  /\ NotTrackedMsg # NoResultsMsg
  /\ \A r \in Requests :
       LET q == req[r]
       IN  (variant = "schema" /\ EmptyResult(q))
           => /\ q.pc = "done"
              /\ q.result.kind = "ok"
              /\ q.result.answer = NotTrackedMsg <=> q.expects = "false"
              /\ q.result.answer = NoResultsMsg <=> q.expects # "false"

\* C8's case: an empty result for a translator answer without the flag.
C8_Witness ==
  LET q == req["r1"]
  IN  /\ variant = "schema" /\ EmptyResult(q) /\ q.pc = "done"
      /\ q.expects = "absent"
      /\ q.result.answer = NoResultsMsg

(***************************************************************************)
(* C9: when the translator answers with its sentinel (the query            *)
(* RETURN 'not_tracked' AS status, expectsResults = false), answerUserQuery *)
(* returns the fixed "not tracked" answer and zero rows, and the           *)
(* narration backend is not called.                                        *)
(***************************************************************************)
C9_SentinelNotTracked ==
  \A r \in Requests :
    LET q == req[r]
    IN  (variant = "schema" /\ q.cypher = Sentinel /\ q.expects = "false"
           /\ Len(q.resp) = 1 /\ q.resp[1].ok)
        => /\ NarrateCalls(q) = 0
           /\ q.pc = "done"
           /\ q.result.answer = NotTrackedMsg
           /\ Len(q.result.data) = 0

(***************************************************************************)
(* C10 as stated: in every pipeline, when the store returns zero rows the  *)
(* answer is a fixed message and the narration backend is not called.      *)
(***************************************************************************)
C10_EmptyNeverNarrated ==
  \A r \in Requests :
    LET q == req[r]
    IN  EmptyResult(q)
        => /\ NarrateCalls(q) = 0
           /\ q.pc = "done"
           /\ q.result.answer \in {NotTrackedMsg, NoResultsMsg, IntentNoDataMsg}

(***************************************************************************)
(* C10 as the code has it: in the two pipelines of queryUnderstanding.js   *)
(* zero rows are answered with a fixed message and without a narration     *)
(* call; queryEngine's answerUserQuery hands the empty result to           *)
(* verbalizeAnswer, which calls the backend, and the answer is the         *)
(* backend's text.                                                         *)
(***************************************************************************)
C10_EmptyNarratedByEngineOnly ==
  \A r \in Requests :
    LET q == req[r]
    IN  EmptyResult(q)
        => /\ variant \in {"schema", "intent"}
             => /\ NarrateCalls(q) = 0
                /\ q.pc = "done"
                /\ q.result.kind = "ok"
                /\ q.result.answer =
                     IF variant = "intent" THEN IntentNoDataMsg
                     ELSE IF q.expects = "false" THEN NotTrackedMsg ELSE NoResultsMsg
           /\ variant = "engine"
             => /\ NarrateCalls(q) = 1
                /\ q.log[Len(q.log)] = Event("narrate", 0, <<>>)
                /\ (q.pc = "done" /\ q.narr = "ok") => q.result.answer = Generated

\* C10's case: the intent pipeline got zero rows and answered.
C10_Witness ==
  LET q == req["r1"]
  IN  /\ variant = "intent" /\ EmptyResult(q) /\ q.pc = "done"
      /\ q.result.answer = IntentNoDataMsg

\* Whether the last store call of a request resolved with exactly one row.
OneRow(q) ==
  /\ Len(q.resp) >= 1
  /\ q.resp[Len(q.resp)].ok
  /\ Len(q.resp[Len(q.resp)].rows) = 1

LastRows(q) == q.resp[Len(q.resp)].rows

(***************************************************************************)
(* C11 as stated: for every result of exactly one row with one or two      *)
(* columns, narrateResults answers by direct formatting and the            *)
(* narration backend is not called, whatever the types of the values.      *)
(***************************************************************************)
C11_SmallResultsDirect ==
  \A r \in Requests :
    LET q == req[r]
    IN  (variant = "schema" /\ OneRow(q) /\ Len(LastRows(q)[1]) \in {1, 2})
        => /\ NarrateCalls(q) = 0
           /\ q.pc = "done"
           /\ q.result.answer \in {DirectNumberMsg, YesMsg, NoMsg}

(***************************************************************************)
(* C11 as the code has it: a result of exactly one row with exactly one    *)
(* column is answered by direct formatting, without a backend call, when   *)
(* the value is a number or a boolean; every other non-empty result (one   *)
(* string value, one row of two columns, several rows) goes to the         *)
(* narration backend.                                                      *)
(***************************************************************************)
C11_SingleNumberOrBooleanDirect ==
  \A r \in Requests :
    LET q == req[r]
        rows == LastRows(q)
        single == Len(rows) = 1 /\ Len(rows[1]) = 1 /\ rows[1][1] \in {"num", "true", "false"}
    IN  (variant = "schema" /\ Len(q.resp) >= 1 /\ q.resp[Len(q.resp)].ok /\ Len(rows) > 0)
        => IF single
             THEN /\ NarrateCalls(q) = 0
                  /\ q.pc = "done"
                  /\ q.result.answer = (CASE rows[1][1] = "num" -> DirectNumberMsg
                                          [] rows[1][1] = "true" -> YesMsg
                                          [] rows[1][1] = "false" -> NoMsg)
                  /\ q.result.data = rows
             ELSE /\ NarrateCalls(q) = 1
                  /\ q.log[Len(q.log)] = Event("narrate", Len(rows), <<>>)
                  /\ (q.pc = "done" /\ q.narr = "ok") => q.result.answer = Generated

\* C11's case: one row holding one number, answered directly.
C11_Witness ==
  LET q == req["r1"]
  IN  /\ variant = "schema" /\ OneRow(q) /\ LastRows(q) = << <<"num">> >>
      /\ q.pc = "done" /\ q.result.answer = DirectNumberMsg

(***************************************************************************)
(* C12: in verbalizeAnswer the prompt embeds at most 50 rows, these are a  *)
(* prefix of the returned rows in their order, and whenever fewer rows     *)
(* are embedded than were returned a non-empty truncation note is          *)
(* appended to the prompt.                                                 *)
(***************************************************************************)
C12_PromptRowsBounded ==
  (call.fn = "verbalizeAnswer" /\ call.pc # "called")
  => LET rows == call.prompt.rows
     IN  /\ Len(rows) <= 50
         /\ Len(rows) <= Len(call.data)
         /\ rows = SubSeq(call.data, 1, Len(rows))
         /\ Len(rows) < Len(call.data) => call.prompt.note # ""

\* C12's case: 30 rows of 3000 characters, cut to 25 by the size rule.
C12_Witness ==
  /\ call.fn = "verbalizeAnswer" /\ call.pc = "returned"
  /\ Len(call.data) = 30 /\ call.size = 3000
  /\ Len(call.prompt.rows) = 25
  /\ call.prompt.note # ""

(***************************************************************************)
(* C13: when the generated answer holds more numeric tokens that occur     *)
(* nowhere in the serialized rows than a fixed threshold, the answer       *)
(* returned is the deterministic raw listing of the rows and not the       *)
(* generated prose.  Stated for any threshold below MaxForeignNumbers.     *)
(***************************************************************************)
C13_ForeignNumbersReplaced ==
  (call.fn = "verbalizeAnswer" /\ call.pc = "returned")
  => \E threshold \in 0..(MaxForeignNumbers - 1) :
       call.ret.foreign > threshold => call.ret.kind = "raw"

(***************************************************************************)
(* The keyword tests of classifyIntent in their order, each with the       *)
(* intent it belongs to.                                                   *)
(***************************************************************************)
NumTests == 14

TestMatches(i, kw) ==
  LET any(K) == kw \cap K # {}
  IN  CASE i = 1 -> any({"severe", "worst", "critical", "priority"})
        [] i = 2 -> any({"trend", "emerging", "new issue"})
        [] i = 3 -> "problem" \in kw /\ any({"with", "on"})
        [] i = 4 -> {"when", "start"} \subseteq kw
        [] i = 5 -> any({"fix", "solve"}) /\ any({"best", "work"})
        [] i = 6 -> any({"fix", "solve"}) /\ "best" \notin kw
        [] i = 7 -> "experimental" \in kw
        [] i = 8 -> "success rate" \in kw
        [] i = 9 -> any({"health", "problematic", "reliable"})
        [] i = 10 -> any({"compare", "vs", "versus"})
        [] i = 11 -> any({"getting better", "improving"})
        [] i = 12 -> {"source", "reliable"} \subseteq kw
        [] i = 13 -> "expert" \in kw
        [] i = 14 -> any({"why", "cause", "reason"})

TestIntent(i) ==
  <<"ISSUE_SEVERITY", "ISSUE_TRENDS", "PRODUCT_ISSUES", "ISSUE_TIMELINE",
    "SOLUTION_EFFECTIVENESS", "SOLUTION_FOR_ISSUE", "EXPERIMENTAL_SOLUTIONS",
    "SOLUTION_SUCCESS_RATE", "PRODUCT_HEALTH", "PRODUCT_COMPARISON",
    "PRODUCT_IMPROVEMENT", "SOURCE_RELIABILITY", "EXPERT_CONSENSUS",
    "ISSUE_ROOT_CAUSE">>[i]

(***************************************************************************)
(* C14: classifyIntent returns, for every question, exactly one member of  *)
(* INTENTS: the intent of the first keyword test, in the fixed order of    *)
(* the tests, that the keywords occurring in the question satisfy, and     *)
(* ISSUE_SEVERITY when they satisfy none.                                  *)
(***************************************************************************)
C14_FirstMatchingTest ==
  (call.fn = "classifyIntent" /\ call.pc # "called")
  => LET kw == call.question.kw
         matching == {i \in 1..NumTests : TestMatches(i, kw)}
     IN  /\ call.intent \in INTENTS
         /\ matching = {} => call.intent = "ISSUE_SEVERITY"
         /\ \A i \in matching :
              (\A j \in matching : i <= j) => call.intent = TestIntent(i)

\* C14's case: "fix" and "work" satisfy the fifth test and the sixth, and the
\* fifth decides.
C14_Witness ==
  /\ call.fn = "classifyIntent" /\ call.pc = "classified"
  /\ call.question.kw = {"fix", "work"}
  /\ call.intent = "SOLUTION_EFFECTIVENESS"

(***************************************************************************)
(* C15: every intent classifyIntent can return has an entry in             *)
(* INTENT_QUERIES, so the intent pipeline reaches the store call for       *)
(* every question and never answers "Query intent not supported".          *)
(***************************************************************************)
C15_EveryIntentHasQuery ==
  (call.fn = "classifyIntent" /\ call.pc # "called") => call.intent \in INTENT_QUERIES

\* C15 on the requests of the intent pipeline.
C15_NeverNotSupported ==
  \A r \in Requests :
    (variant = "intent" /\ req[r].pc # "idle")
    => /\ req[r].intent \in INTENT_QUERIES
       /\ StoreCalls(req[r]) = 1
       /\ "intent" \notin req[r].result.keys \/ req[r].result.kind = "ok"

(***************************************************************************)
(* C16: for the question "Which users reported the most issues?" the       *)
(* intent pipeline executes a query that ranks users (by their issue       *)
(* count), so that the user with the highest count is at rank 1.           *)
(***************************************************************************)
C16_UsersRanked ==
  \A r \in Requests :
    LET q == req[r]
    IN  (variant = "intent" /\ q.question = WhichUsersQuestion /\ q.pc # "idle")
        => /\ StoreCalls(q) = 1
           /\ RankedEntity(q.intent) = "user"

\* A value and what reaches the store for it: an integer-valued number is
\* tagged, a nested object keeps its keys and the same holds of its
\* entries, every other value is the same.
RECURSIVE ReachesStoreAs(_, _)
ReachesStoreAs(value, sent) ==
  IF value.t = "int" THEN sent = [t |-> "Integer"]
  ELSE IF value.t = "object"
    THEN /\ sent.t = "object"
         /\ DOMAIN sent.f = DOMAIN value.f
         /\ \A key \in DOMAIN value.f : ReachesStoreAs(value.f[key], sent.f[key])
  ELSE sent = value

(***************************************************************************)
(* C17: for every parameter map passed to runCypher or runCypherReadOnly,  *)
(* every integer-valued number in it, at top level or inside a nested      *)
(* object, reaches the store tagged as a store integer, every other value  *)
(* reaches it unchanged, and the keys are preserved.                       *)
(***************************************************************************)
C17_IntegersTagged ==
  (call.fn \in {"runCypher", "runCypherReadOnly"} /\ call.pc # "called")
  => /\ DOMAIN call.sent = DOMAIN call.params
     /\ \A key \in DOMAIN call.params : ReachesStoreAs(call.params[key], call.sent[key])

\* C17 for the version of the client that has convertToNeo4jTypes.
C17_ConvertedIntegersTagged ==
  (call.fn \in {"runCypher", "runCypherReadOnly"} /\ call.file = "part_004"
     /\ call.pc # "called")
  => /\ DOMAIN call.sent = DOMAIN call.params
     /\ \A key \in DOMAIN call.params : ReachesStoreAs(call.params[key], call.sent[key])

(***************************************************************************)
(* C18: the /api/query handler never calls answerUserQuery before          *)
(* initializeSchemaCache has completed successfully: while isServerReady   *)
(* is false every query request is answered with status 503,               *)
(* isServerReady becomes true only after discovery succeeded and never     *)
(* returns to false, and after a failed startup discovery every query      *)
(* request is refused.                                                     *)
(***************************************************************************)
C18_ReadinessGate ==
  /\ [](/\ \A h \in HttpRequests :
             http[h].called => (isServerReady /\ startup.pc = "ready" /\ schemaCache # 0)
        /\ ~isServerReady =>
             \A h \in HttpRequests :
               http[h].pc # "none" => (http[h].pc = "responded" /\ http[h].status = 503)
        /\ isServerReady => (startup.pc = "ready" /\ schemaCache # 0 /\ failedPasses = 0)
        /\ startup.pc \in {"failed", "crashed"} =>
             (~isServerReady /\ \A h \in HttpRequests : ~http[h].called))
  /\ [][isServerReady => isServerReady']_vars

\* C18's case: startup discovery failed and a query request was refused.
C18_Witness ==
  /\ startup.pc = "failed" /\ failedPasses = 1
  /\ http["h1"].pc = "responded" /\ http["h1"].status = 503
  /\ http["h1"].body.question = "string"

(***************************************************************************)
(* C19: the conversation history the /api/query handler hands to           *)
(* answerUserQuery has at most 10 entries, each with role 'user' or        *)
(* 'assistant' and a content of at most 500 characters, and the entries    *)
(* are, in their order, entries of the last 10 of the submitted history.   *)
(***************************************************************************)
C19_HistorySanitized ==
  \A h \in HttpRequests :
    http[h].called
    => LET handed == http[h].handed
           submitted == http[h].body.history
       IN  /\ Len(handed) <= 10
           /\ \A i \in 1..Len(handed) :
                /\ handed[i].role \in {"user", "assistant"}
                /\ handed[i].len <= 500
                /\ handed[i].id \in 1..Len(submitted)
                /\ handed[i].id > Len(submitted) - 10
                /\ handed[i].len <= submitted[handed[i].id].len
                /\ (submitted[handed[i].id].role = "user") <=> (handed[i].role = "user")
           /\ \A i, j \in 1..Len(handed) : i < j => handed[i].id < handed[j].id

\* C19's case: 12 entries submitted, the last 10 handed on, one of them cut
\* to 500 characters and one with its role replaced.
C19_Witness ==
  \E h \in HttpRequests :
    /\ http[h].called
    /\ Len(http[h].body.history) = 12
    /\ Len(http[h].handed) = 10
    /\ http[h].handed[1].id = 3
    /\ \E i \in 1..10 : http[h].handed[i].len = 500
                         /\ http[h].body.history[http[h].handed[i].id].len = 501
    /\ \E i \in 1..10 : http[h].handed[i].role = "assistant"
                         /\ http[h].body.history[http[h].handed[i].id].role = "system"

\* Whether a step of the request failed for good: the schema could not be
\* loaded or no query was generated (no store call was made), the last
\* store call rejected, or the narration call rejected.
StepFailed(q) ==
  \/ Len(q.resp) = 0
  \/ ~q.resp[Len(q.resp)].ok
  \/ q.narr = "failed"

(***************************************************************************)
(* C20: whatever fails (schema loading, query generation, store            *)
(* execution, narration), answerUserQuery of each pipeline resolves, with  *)
(* a success object or with a structured error payload; no exception       *)
(* escapes, and a request with a failed step never ends with a success     *)
(* object.                                                                 *)
(***************************************************************************)
C20_ResolvesWithResultOrError ==
  /\ [](\A r \in Requests :
          LET q == req[r]
          IN  /\ q.pc \in {"idle", "schema", "gen", "genWait", "exec", "execWait", "narr", "done"}
              /\ q.pc = "done"
                   => /\ q.result.kind \in {"ok", "error"}
                      /\ q.result.kind = "error"
                           => ("error" \in q.result.keys /\ q.result.error # <<>>)
                      /\ q.result.kind = "ok"
                           => ("error" \notin q.result.keys /\ q.result.answer # ""
                                 /\ ~StepFailed(q))
                      /\ StepFailed(q) => q.result.kind = "error")
  /\ <>(\A r \in Served : req[r].pc = "done")

\* C20's case: a generation attempt, two store calls and the narration
\* call failed, and the request ended with an error payload.
C20_Witness ==
  LET q == req["r1"]
  IN  /\ variant = "engine" /\ q.pc = "done"
      /\ q.genAttempt = 2 /\ Len(q.resp) = 3 /\ q.resp[3].ok
      /\ q.narr = "failed"
      /\ q.result.kind = "error" /\ "error" \in q.result.keys

\* The user-facing messages of the catch blocks and of the unsupported
\* intent, each a text of its own.
SafeErrors ==
  { <<"I couldn't generate a valid query for your question. Please try rephrasing it.">>,
    <<"The database query failed to execute. Please try again or contact support.">>,
    <<"I had trouble understanding your question. Could you rephrase it?">>,
    <<"An unexpected error occurred while processing your question.">>,
    <<"Failed to execute graph query. Please try again.">>,
    <<"Query intent not supported. The graph cannot make a decision for this query.">> }

\* The texts of the underlying store and backend errors.
RawErrorTexts == {MsgSyntax, MsgUnavailable, MsgBackend, MsgMetadata}

(***************************************************************************)
(* C21: in every error payload that reaches the caller the error field is  *)
(* one of a fixed set of safe strings and holds nothing of the text of     *)
(* the underlying store or backend error; the raw text is in the separate  *)
(* details field only.                                                     *)
(***************************************************************************)
C21_SafeErrorField ==
  \A r \in Requests :
    LET q == req[r]
    IN  (q.pc = "done" /\ q.result.kind = "error")
        => /\ q.result.error \in SafeErrors
           /\ \A i \in 1..Len(q.result.error) : q.result.error[i] \notin RawErrorTexts

\* C21 for the two pipelines whose catch blocks have a details field.
C21_SafeErrorFieldWithDetails ==
  \A r \in Requests :
    LET q == req[r]
    IN  (variant \in {"engine", "intent"} /\ q.pc = "done" /\ q.result.kind = "error")
        => /\ q.result.error \in SafeErrors
           /\ \A i \in 1..Len(q.result.error) : q.result.error[i] \notin RawErrorTexts

OwnOutcome(q) ==
  /\ q.result.kind = (IF StepFailed(q) THEN "error" ELSE "ok")
  /\ \A i \in 1..Len(q.log) : q.log[i].ev = "store" => q.log[i].q = q.cypher
  /\ q.result.kind = "ok"
       => /\ q.data = q.resp[Len(q.resp)].rows
          /\ q.result.cypher = q.cypher
          /\ Len(q.data) > 0 => q.result.data = q.data
          /\ variant = "intent" => q.result.intent = classifyIntent(q.question)
  /\ (q.result.kind = "error" /\ Len(q.resp) > 0 /\ ~q.resp[Len(q.resp)].ok /\ variant # "schema")
       => q.result.details[Len(q.result.details)] = q.resp[Len(q.resp)].msg[1]

(***************************************************************************)
(* C23: two answerUserQuery requests interleaved at their suspension       *)
(* points are independent: a step of one request changes nothing of the    *)
(* other (the only process-wide variable written is the schema cache),     *)
(* and what each request returns is determined by the external responses   *)
(* it received itself.                                                     *)
(***************************************************************************)
C23_RequestsIndependent ==
  /\ [](\A r \in Requests : req[r].pc = "done" => OwnOutcome(req[r]))
  /\ [][/\ \A r, o \in Requests : (r # o /\ req'[r] # req[r]) => req'[o] = req[o]
        /\ variant' = variant
        /\ <<sendVars, fnVars, srvVars>>' = <<sendVars, fnVars, srvVars>>
        /\ variant # "schema" => schemaVars' = schemaVars]_vars

\* C23's case: the two requests ran interleaved (the second started while
\* the first awaited the store) and returned different results.
C23_Witness ==
  /\ variant = "engine"
  /\ req["r1"].pc = "done" /\ req["r2"].pc = "done"
  /\ req["r1"].result.kind = "ok" /\ Len(req["r1"].result.data) = 2
  /\ req["r2"].result.kind = "error" /\ Len(req["r2"].resp) = 3

\* The sums the WEIGHTS table gives for a group of matched rows.
RECURSIVE TableExpertise(_)
TableExpertise(rows) ==
  IF rows = <<>> THEN 0
  ELSE WEIGHTS.expertise[Head(rows).expertise] + TableExpertise(Tail(rows))

RECURSIVE TableOutcome(_)
TableOutcome(rows) ==
  IF rows = <<>> THEN 0
  ELSE WEIGHTS.outcome[Head(rows).outcome] + TableOutcome(Tail(rows))

(***************************************************************************)
(* C24: every catalog query that weights by user expertise applies         *)
(* expert = 2.0, intermediate = 1.5, novice = 1.0 and 0.8 for an unknown   *)
(* level, and every query that weights by post-fix outcome applies         *)
(* resolved = 1.0, improved = 0.7, no_change = 0.3, worse = 0.0: the       *)
(* weights summed inside the queries are those of the WEIGHTS table.       *)
(***************************************************************************)
C24_QueryWeightsEqualTable ==
  (call.fn = "INTENT_QUERIES" /\ call.pc # "matched")
    => /\ call.expertise_weight = TableExpertise(call.rows)
       /\ call.intent = "SOLUTION_EFFECTIVENESS"
            => call.success_score = TableOutcome(call.rows)

\* The part of C24 the queries do satisfy: the outcome weights, and the
\* expertise weights of ISSUE_SEVERITY.
C24_OutcomeAndSeverityWeights ==
  (call.fn = "INTENT_QUERIES" /\ call.pc # "matched")
    => /\ call.intent = "ISSUE_SEVERITY"
            => call.expertise_weight = TableExpertise(call.rows)
       /\ call.intent = "SOLUTION_EFFECTIVENESS"
            => call.success_score = TableOutcome(call.rows)

(***************************************************************************)
(* C25: in verbalizeAnswer, for every result set the serialized result     *)
(* text embedded in the generation prompt is at most MAX_JSON_LENGTH       *)
(* characters long.                                                        *)
(***************************************************************************)
C25_PromptTextBounded ==
  (call.fn = "verbalizeAnswer" /\ call.pc # "called")
    => JsonLength(call.prompt.rows, call.size) <= MAX_JSON_LENGTH

\* What lines 166-170 do establish: an oversized text is cut to 25 rows.
C25_OversizedCutToHalf ==
  (call.fn = "verbalizeAnswer" /\ call.pc # "called")
    => \/ JsonLength(call.prompt.rows, call.size) <= MAX_JSON_LENGTH
       \/ Len(call.prompt.rows) <= 25

(***************************************************************************)
(* C26: whenever the intent pipeline executes a catalog query that         *)
(* references $product or $issue (PRODUCT_ISSUES, SOLUTION_FOR_ISSUE,      *)
(* ISSUE_ROOT_CAUSE), the parameter map extractParams produced contains    *)
(* that key with a non-empty value, for every question classifyIntent      *)
(* maps to that intent.                                                    *)
(***************************************************************************)
C26_ReferencedParamPresent ==
  (call.fn = "classifyIntent" /\ call.pc = "extracted")
    => /\ call.intent = "PRODUCT_ISSUES" => call.params.product \notin {"absent", "empty"}
       /\ call.intent \in {"SOLUTION_FOR_ISSUE", "ISSUE_ROOT_CAUSE"}
            => call.params.issue \notin {"absent", "empty"}

\* What extractParams does guarantee: a key is set only from a match of its
\* regular expression, and only for the intents of its branch.
C26_ParamOnlyFromMatch ==
  (call.fn = "classifyIntent" /\ call.pc = "extracted")
    => /\ call.params.product # "absent"
            => /\ call.intent \in {"PRODUCT_ISSUES", "PRODUCT_COMPARISON"}
               /\ call.params.product = call.question.product
       /\ call.params.issue # "absent"
            => /\ call.intent \in {"SOLUTION_FOR_ISSUE", "ISSUE_ROOT_CAUSE"}
               /\ call.params.issue = call.question.issue

\* The intents classifyIntent returns on the questions of the helper
\* specification.
SelectableIntents ==
  {classifyIntent(q) : q \in KeywordQuestions \cup EffectivenessQuestions}

(***************************************************************************)
(* C27: every intent that has an entry in INTENT_QUERIES is selectable:    *)
(* for each such intent there is a question that classifyIntent maps to    *)
(* it, i.e. no keyword test of classifyIntent is shadowed by an earlier    *)
(* test in the fixed order.                                                *)
(***************************************************************************)
C27_CatalogIntentsSelectable ==
  call.fn = "classifyIntent" => INTENT_QUERIES \subseteq SelectableIntents

\* The shadowing itself: a question that satisfies the SOURCE_RELIABILITY
\* test (the twelfth) has "reliable", so it satisfies the PRODUCT_HEALTH
\* test (the ninth) and is never classified as SOURCE_RELIABILITY.
C27_SourceReliabilityShadowed ==
  (call.fn = "classifyIntent" /\ call.pc # "called")
    => /\ TestMatches(12, call.question.kw) => TestMatches(9, call.question.kw)
       /\ call.intent # "SOURCE_RELIABILITY"

\* The LIMIT clauses of a text: LIMIT, white space, a numeric literal.
LimitClauses(s) == {i \in 1..Len(s) : LimitMatchEnd(s, i) # 0}

(***************************************************************************)
(* C28: for every input query, including queries with several LIMIT        *)
(* clauses, the text returned by optimizeCypher contains no LIMIT clause   *)
(* with a numeric literal greater than 100, and applying optimizeCypher to *)
(* its own output returns that output unchanged.                           *)
(***************************************************************************)
C28_NoLimitAbove100AndIdempotent ==
  (sendPc = "sent" /\ sendVia = "engine")
    => /\ \A i \in LimitClauses(sentText) : NumVal(sentText[LimitMatchEnd(sentText, i)]) <= 100
       /\ optimizeCypher(sentText) = sentText

\* C28's first half alone.
C28_NoLimitAbove100 ==
  (sendPc = "sent" /\ sendVia = "engine")
    => \A i \in LimitClauses(sentText) : NumVal(sentText[LimitMatchEnd(sentText, i)]) <= 100

\* C28's second half alone.
C28_Idempotent ==
  (sendPc = "sent" /\ sendVia = "engine") => optimizeCypher(sentText) = sentText

\* What lines 113-119 do establish: the first LIMIT clause of the output is
\* at most 100, and a generated text with at most one LIMIT clause and no
\* fence comes out with every clause at most 100.
C28_FirstLimitBounded ==
  (sendPc = "sent" /\ sendVia = "engine")
    => /\ LimitMatch(sentText) # 0
            => NumVal(sentText[LimitMatchEnd(sentText, LimitMatch(sentText))]) <= 100
       /\ (Cardinality(LimitClauses(genText)) <= 1
             /\ \A i \in 1..Len(genText) : genText[i] \notin {"FENCE", "FENCEC"})
            => \A i \in LimitClauses(sentText) :
                 NumVal(sentText[LimitMatchEnd(sentText, i)]) <= 100

\* A getSchema call of caller c rejects in this step.
Rejects(c) == gsPc[c] = "awaiting" /\ gsPc'[c] = "threw"

\* Caller c calls getSchema in this step.
Calls(c) == gsCalls'[c] = gsCalls[c] + 1

(***************************************************************************)
(* C29: if any of the parallel introspection queries of getSchema fails,   *)
(* getSchema rejects and leaves schemaCache empty (no partial descriptor   *)
(* is ever stored), so the next call to getSchema starts a new discovery   *)
(* pass rather than returning a stale or partial descriptor.               *)
(***************************************************************************)
C29_RejectLeavesCacheEmpty ==
  /\ [][\A c \in Callers : Rejects(c) => schemaCache' = 0]_vars
  /\ [][\A c \in Callers :
          (Calls(c) /\ gsPc[c] = "threw") => discoveryPasses' = discoveryPasses + 1]_vars

\* What lines 139-142 do establish: the rejecting call assigns nothing, only
\* resolved passes are ever stored, and a call that finds the cache empty
\* starts a new pass.
C29_RejectStoresNothing ==
  /\ [][\A c \in Callers : Rejects(c) => (schemaCache' = schemaCache /\ stored' = stored)]_vars
  /\ [][\A c \in Callers : stored' # stored => (gsPc[c] = "awaiting" /\ gsPc'[c] = "returned")
                                                 \/ gsPc'[c] = gsPc[c]]_vars
  /\ [][\A c \in Callers :
          (Calls(c) /\ schemaCache = 0) => discoveryPasses' = discoveryPasses + 1]_vars
  /\ [](schemaCache # 0 => schemaCache \in stored)

\* The positions of the events of one kind in a request's log.
EventsAt(q, ev) == {i \in 1..Len(q.log) : q.log[i].ev = ev}

(***************************************************************************)
(* C30: in queryEngine's answerUserQuery the steps of one request are      *)
(* strictly ordered: query generation is attempted at most twice with a    *)
(* 500 ms wait between the attempts; the store is called only after a      *)
(* generation attempt succeeded; every execution retry sends the identical *)
(* query text, with no regeneration in between; and narration is called    *)
(* at most once and only after an execution attempt succeeded.             *)
(***************************************************************************)
C30_StepsOrdered ==
  \A r \in Requests :
    LET q == req[r]
        gens == EventsAt(q, "generate")
        waits == EventsAt(q, "genWait")
        stores == EventsAt(q, "store")
        narrs == EventsAt(q, "narrate")
    IN  variant = "engine"
        => /\ q.genAttempt <= 2 /\ Cardinality(gens) <= 2
           /\ Cardinality(waits) = (IF q.genAttempt = 2 \/ q.pc = "genWait" THEN 1 ELSE 0)
           /\ \A w \in waits : q.log[w].ms = 500 /\ \A g \in gens : g # w - 1 => w < g
           /\ \A i \in stores :
                /\ gens # {}
                /\ \A j \in gens \cup waits : j < i
                /\ q.log[i].q = q.cypher
                /\ \/ i - 1 \in gens /\ \A j \in stores : i <= j
                   \/ i - 1 \in EventsAt(q, "execWait")
           /\ Cardinality(narrs) <= 1
           /\ \A n \in narrs :
                /\ n = Len(q.log)
                /\ n - 1 \in stores
                /\ q.resp # <<>> /\ q.resp[Len(q.resp)].ok
                /\ \A k \in 1..(Len(q.resp) - 1) : ~q.resp[k].ok

\* C30's case: a request that needed both generation attempts and all three
\* execution attempts before its one narration call.
C30_Witness ==
  LET q == req["r1"]
  IN  /\ variant = "engine" /\ q.pc = "done" /\ q.result.kind = "ok"
      /\ q.genAttempt = 2 /\ GenerateCalls(q) = 2
      /\ StoreCalls(q) = 3 /\ NarrateCalls(q) = 1

====
